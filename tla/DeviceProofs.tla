---------------------------- MODULE DeviceProofs ----------------------------
(***************************************************************************)
(* Proofs about two of the guest's devices, for every value of the         *)
(* constants.                                                              *)
(*                                                                         *)
(* The mouse on the SCC: an enabled DCD interrupt is presented until it is *)
(* served, and a guest whose handler keeps up counts every quadrature      *)
(* edge, whatever the limits and the distance moved.                       *)
(*                                                                         *)
(* The SCSI disks: a transfer that ends with status GOOD is on the medium, *)
(* a command runs exactly once, and a write changes what it was asked to.  *)
(***************************************************************************)
EXTENDS Mouse, Scsi, WellFoundedInduction, TLAPS

-----------------------------------------------------------------------------
(* THE MOUSE: its chip.                                                    *)

Chips == [dcd : [Axes -> 0 .. 1], rr0Prev : [Axes -> 0 .. 1], rr0Latched : [Axes -> {None, 0, 1}],
          extEnable : [Axes -> BOOLEAN], dcdEnable : [Axes -> BOOLEAN],
          intpending : SUBSET Axes, irqAsserted : BOOLEAN, irqPending : BOOLEAN, level : BOOLEAN]

\* An enabled source is pending; and what assessIrq makes of it.
Active(s) == \E c \in s.intpending : s.extEnable[c] = TRUE
Presents(s) == Active(s) => s.irqPending = TRUE /\ s.level = TRUE

\* s and t differ in the interrupt outputs only.
SameInputs(s, t) ==
    /\ t.dcd = s.dcd /\ t.rr0Prev = s.rr0Prev /\ t.rr0Latched = s.rr0Latched
    /\ t.extEnable = s.extEnable /\ t.dcdEnable = s.dcdEnable /\ t.intpending = s.intpending

LEMMA AssessIs ==
  ASSUME NEW s \in Chips
  PROVE  assessIrq(s) \in Chips /\ SameInputs(s, assessIrq(s)) /\ Presents(assessIrq(s))
  <1>1. s.intpending \subseteq Axes /\ s.extEnable \in [Axes -> BOOLEAN]
    BY DEF Chips
  <1>2. Active(s) <=> \E c \in s.intpending : s.extEnable[c]
    BY <1>1 DEF Active
  <1>3. CASE Active(s)
    <2>1. PICK t : t = [s EXCEPT !.irqAsserted = TRUE]
      OBVIOUS
    <2>2. t \in Chips /\ SameInputs(s, t)
      BY <2>1 DEF Chips, SameInputs
    <2>3. PICK u : u = SccIrq(t, TRUE)
      OBVIOUS
    <2>4. u \in Chips /\ SameInputs(t, u) /\ u.irqPending = TRUE /\ u.level = TRUE
      BY <2>2, <2>3 DEF Chips, SameInputs, SccIrq
    <2>5. assessIrq(s) = u
      BY <1>2, <1>3, <2>1, <2>3 DEF assessIrq
    <2> QED BY <2>2, <2>4, <2>5 DEF SameInputs, Presents
  <1>4. CASE ~Active(s)
    <2>1. CASE s.irqAsserted = TRUE
      <3>1. PICK t : t = [s EXCEPT !.irqAsserted = FALSE]
        OBVIOUS
      <3>2. t \in Chips /\ SameInputs(s, t)
        BY <3>1 DEF Chips, SameInputs
      <3>3. PICK u : u = SccIrq(t, FALSE)
        OBVIOUS
      <3>4. u \in Chips /\ SameInputs(t, u)
        BY <3>2, <3>3 DEF Chips, SameInputs, SccIrq
      <3>5. assessIrq(s) = u
        BY <1>2, <1>4, <2>1, <3>1, <3>3 DEF assessIrq
      <3>6. ~Active(u)
        BY <1>4, <3>2, <3>4 DEF Active, SameInputs
      <3> QED BY <3>2, <3>4, <3>5, <3>6 DEF SameInputs, Presents
    <2>2. CASE s.irqAsserted = FALSE
      <3>1. assessIrq(s) = s
        BY <1>2, <1>4, <2>2 DEF assessIrq
      <3> QED BY <1>4, <3>1 DEF SameInputs, Presents
    <2> QED BY <2>1, <2>2 DEF Chips
  <1> QED BY <1>3, <1>4

\* checkExtInt compares the line with what it was, latches it and asks.
Triggered(s, c) == s.dcd[c] # s.rr0Prev[c] /\ s.dcdEnable[c] = TRUE

LEMMA CheckIs ==
  ASSUME NEW s \in Chips, NEW c \in Axes
  PROVE  LET u == checkExtInt(s, c)
         IN  /\ u \in Chips /\ Presents(u)
             /\ u.dcd = s.dcd /\ u.extEnable = s.extEnable /\ u.dcdEnable = s.dcdEnable
             /\ u.rr0Prev = [s.rr0Prev EXCEPT ![c] = s.dcd[c]]
             /\ u.intpending = IF Triggered(s, c) THEN s.intpending \cup {c} ELSE s.intpending
             /\ u.rr0Latched = IF Triggered(s, c) THEN [s.rr0Latched EXCEPT ![c] = s.dcd[c]]
                               ELSE s.rr0Latched
  <1>1. /\ s.dcd \in [Axes -> 0 .. 1] /\ s.rr0Prev \in [Axes -> 0 .. 1] /\ s.intpending \subseteq Axes
        /\ s.rr0Latched \in [Axes -> {None, 0, 1}] /\ s.dcdEnable \in [Axes -> BOOLEAN]
    BY DEF Chips
  <1>2. Triggered(s, c) <=> s.dcd[c] # s.rr0Prev[c] /\ s.dcdEnable[c]
    BY <1>1 DEF Triggered
  <1>3. PICK t : t = IF Triggered(s, c)
                     THEN [s EXCEPT !.rr0Latched[c] = s.dcd[c], !.intpending = @ \cup {c}] ELSE s
    OBVIOUS
  <1>4. /\ t \in Chips /\ t.dcd = s.dcd /\ t.extEnable = s.extEnable /\ t.dcdEnable = s.dcdEnable
        /\ t.rr0Prev = s.rr0Prev
        /\ t.intpending = IF Triggered(s, c) THEN s.intpending \cup {c} ELSE s.intpending
        /\ t.rr0Latched = IF Triggered(s, c) THEN [s.rr0Latched EXCEPT ![c] = s.dcd[c]]
                          ELSE s.rr0Latched
    <2>1. CASE Triggered(s, c)
      <3>1. t = [s EXCEPT !.rr0Latched[c] = s.dcd[c], !.intpending = @ \cup {c}]
        BY <1>3, <2>1
      <3>2. [s.rr0Latched EXCEPT ![c] = s.dcd[c]] \in [Axes -> {None, 0, 1}]
        BY <1>1
      <3>3. s.intpending \cup {c} \subseteq Axes
        BY <1>1
      <3>4. /\ t.dcd = s.dcd /\ t.extEnable = s.extEnable /\ t.dcdEnable = s.dcdEnable
            /\ t.rr0Prev = s.rr0Prev /\ t.intpending = s.intpending \cup {c}
            /\ t.rr0Latched = [s.rr0Latched EXCEPT ![c] = s.dcd[c]]
        BY <3>1 DEF Chips
      <3>5. t \in Chips
        BY <3>1, <3>2, <3>3 DEF Chips
      <3> QED BY <2>1, <3>4, <3>5
    <2>2. CASE ~Triggered(s, c)
      BY <1>3, <2>2
    <2> QED BY <2>1, <2>2
  <1>5. PICK v : v = [t EXCEPT !.rr0Prev[c] = s.dcd[c]]
    OBVIOUS
  <1>6. /\ v \in Chips /\ v.dcd = t.dcd /\ v.extEnable = t.extEnable /\ v.dcdEnable = t.dcdEnable
        /\ v.rr0Prev = [t.rr0Prev EXCEPT ![c] = s.dcd[c]]
        /\ v.intpending = t.intpending /\ v.rr0Latched = t.rr0Latched
    <2>1. [t.rr0Prev EXCEPT ![c] = s.dcd[c]] \in [Axes -> 0 .. 1]
      BY <1>1, <1>4
    <2> QED BY <1>4, <1>5, <2>1 DEF Chips
  <1>7. PICK u : u = checkExtInt(s, c)
    OBVIOUS
  <1>8. u = assessIrq(v)
    BY <1>2, <1>3, <1>5, <1>7 DEF checkExtInt
  <1>9. u \in Chips /\ SameInputs(v, u) /\ Presents(u)
    BY <1>6, <1>8, AssessIs
  <1> QED BY <1>4, <1>6, <1>7, <1>9 DEF SameInputs
(***************************************************************************)
(* The operations of the chip.                                             *)
(***************************************************************************)
LEMMA SetDcdIs ==
  ASSUME NEW s \in Chips, NEW c \in Axes, NEW v \in 0 .. 1, s.rr0Prev = s.dcd
  PROVE  LET u == sccSetDcd(s, c, v)
             changed == v # s.dcd[c] /\ s.dcdEnable[c] = TRUE
         IN  /\ u \in Chips /\ Presents(u)
             /\ u.extEnable = s.extEnable /\ u.dcdEnable = s.dcdEnable
             /\ u.dcd = [s.dcd EXCEPT ![c] = v] /\ u.rr0Prev = u.dcd
             /\ u.intpending = IF changed THEN s.intpending \cup {c} ELSE s.intpending
             /\ u.rr0Latched = IF changed THEN [s.rr0Latched EXCEPT ![c] = v] ELSE s.rr0Latched
  <1>1. PICK t : t = [s EXCEPT !.dcd[c] = v]
    OBVIOUS
  <1>2. s.dcd \in [Axes -> 0 .. 1]
    BY DEF Chips
  <1>3. /\ t \in Chips /\ t.extEnable = s.extEnable /\ t.dcdEnable = s.dcdEnable
        /\ t.dcd = [s.dcd EXCEPT ![c] = v] /\ t.rr0Prev = s.rr0Prev
        /\ t.intpending = s.intpending /\ t.rr0Latched = s.rr0Latched
    <2>1. [s.dcd EXCEPT ![c] = v] \in [Axes -> 0 .. 1]
      BY <1>2
    <2> QED BY <1>1, <2>1 DEF Chips
  <1>4. t.dcd[c] = v /\ (Triggered(t, c) <=> v # s.dcd[c] /\ s.dcdEnable[c] = TRUE)
    BY <1>2, <1>3 DEF Triggered
  <1>5. PICK u : u = checkExtInt(t, c)
    OBVIOUS
  <1>6. /\ u \in Chips /\ Presents(u)
        /\ u.dcd = t.dcd /\ u.extEnable = t.extEnable /\ u.dcdEnable = t.dcdEnable
        /\ u.rr0Prev = [t.rr0Prev EXCEPT ![c] = t.dcd[c]]
        /\ u.intpending = IF Triggered(t, c) THEN t.intpending \cup {c} ELSE t.intpending
        /\ u.rr0Latched = IF Triggered(t, c) THEN [t.rr0Latched EXCEPT ![c] = t.dcd[c]] ELSE t.rr0Latched
    BY <1>3, <1>5, CheckIs
  <1>7. sccSetDcd(s, c, v) = u
    BY <1>1, <1>5 DEF sccSetDcd
  <1>8. u.rr0Prev = u.dcd
    BY <1>2, <1>3, <1>4, <1>6
  <1> QED BY <1>3, <1>4, <1>6, <1>7, <1>8

\* The operations of the handler find every line as it was: nothing triggers.
Steady(s, u) ==
    /\ u \in Chips /\ Presents(u) /\ u.dcd = s.dcd /\ u.rr0Prev = s.dcd

LEMMA SteadyCheck ==
  ASSUME NEW s \in Chips, NEW c \in Axes, s.rr0Prev = s.dcd
  PROVE  LET u == checkExtInt(s, c)
         IN  /\ Steady(s, u) /\ u.extEnable = s.extEnable /\ u.dcdEnable = s.dcdEnable
             /\ u.intpending = s.intpending /\ u.rr0Latched = s.rr0Latched
  <1>1. ~Triggered(s, c) /\ [s.rr0Prev EXCEPT ![c] = s.dcd[c]] = s.dcd
    BY DEF Triggered, Chips
  <1> QED BY <1>1, CheckIs DEF Steady

LEMMA ReadRR2Is ==
  ASSUME NEW s \in Chips, s.rr0Prev = s.dcd
  PROVE  LET u == ReadRR2(s)
         IN  /\ Steady(s, u) /\ u.extEnable = s.extEnable /\ u.dcdEnable = s.dcdEnable
             /\ u.intpending = s.intpending \ {Rr2Source(s)} /\ u.rr0Latched = s.rr0Latched
  <1>1. PICK t : t = [s EXCEPT !.intpending = @ \ {Rr2Source(s)}]
    OBVIOUS
  <1>2. /\ t \in Chips /\ t.extEnable = s.extEnable /\ t.dcdEnable = s.dcdEnable /\ t.dcd = s.dcd
        /\ t.rr0Prev = s.rr0Prev /\ t.rr0Latched = s.rr0Latched
        /\ t.intpending = s.intpending \ {Rr2Source(s)}
    <2>1. s.intpending \ {Rr2Source(s)} \subseteq Axes
      BY DEF Chips
    <2> QED BY <1>1, <2>1 DEF Chips
  <1>3. ReadRR2(s) = checkExtInt(t, "B") /\ "B" \in Axes
    BY <1>1 DEF ReadRR2, Axes
  <1> QED BY <1>2, <1>3, SteadyCheck DEF Steady

LEMMA ReadRR0Is ==
  ASSUME NEW s \in Chips, NEW c \in Axes, s.rr0Prev = s.dcd
  PROVE  LET u == ReadRR0(s, c)
         IN  /\ Steady(s, u) /\ u.extEnable = s.extEnable /\ u.dcdEnable = s.dcdEnable
             /\ u.intpending = s.intpending /\ u.rr0Latched = [s.rr0Latched EXCEPT ![c] = None]
  <1>1. PICK t : t = [s EXCEPT !.rr0Latched[c] = None]
    OBVIOUS
  <1>2. /\ t \in Chips /\ t.extEnable = s.extEnable /\ t.dcdEnable = s.dcdEnable /\ t.dcd = s.dcd
        /\ t.rr0Prev = s.rr0Prev /\ t.rr0Latched = [s.rr0Latched EXCEPT ![c] = None]
        /\ t.intpending = s.intpending
    <2>1. [s.rr0Latched EXCEPT ![c] = None] \in [Axes -> {None, 0, 1}]
      BY DEF Chips
    <2> QED BY <1>1, <2>1 DEF Chips
  <1>3. ReadRR0(s, c) = checkExtInt(t, c)
    BY <1>1 DEF ReadRR0
  <1> QED BY <1>2, <1>3, SteadyCheck DEF Steady

LEMMA ResetExtIs ==
  ASSUME NEW s \in Chips, NEW c \in Axes, s.rr0Prev = s.dcd
  PROVE  LET u == ResetExt(s, c)
         IN  /\ Steady(s, u) /\ u.extEnable = s.extEnable /\ u.dcdEnable = s.dcdEnable
             /\ u.intpending = s.intpending \ {c} /\ u.rr0Latched = [s.rr0Latched EXCEPT ![c] = None]
  <1>1. PICK t : t = [s EXCEPT !.rr0Latched[c] = None, !.intpending = @ \ {c}]
    OBVIOUS
  <1>2. /\ t \in Chips /\ t.extEnable = s.extEnable /\ t.dcdEnable = s.dcdEnable /\ t.dcd = s.dcd
        /\ t.rr0Prev = s.rr0Prev /\ t.rr0Latched = [s.rr0Latched EXCEPT ![c] = None]
        /\ t.intpending = s.intpending \ {c}
    <2>1. [s.rr0Latched EXCEPT ![c] = None] \in [Axes -> {None, 0, 1}]
      BY DEF Chips
    <2>2. s.intpending \ {c} \subseteq Axes
      BY DEF Chips
    <2> QED BY <1>1, <2>1, <2>2 DEF Chips
  <1>3. ResetExt(s, c) = checkExtInt(t, c)
    BY <1>1 DEF ResetExt
  <1> QED BY <1>2, <1>3, SteadyCheck DEF Steady

LEMMA EnableExtIs ==
  ASSUME NEW s \in Chips, NEW c \in Axes, s.rr0Prev = s.dcd
  PROVE  LET u == EnableExt(s, c)
         IN  /\ Steady(s, u)
             /\ u.extEnable = [s.extEnable EXCEPT ![c] = TRUE]
             /\ u.dcdEnable = [s.dcdEnable EXCEPT ![c] = TRUE]
             /\ u.intpending = s.intpending /\ u.rr0Latched = s.rr0Latched
  <1>1. PICK t : t = [s EXCEPT !.extEnable[c] = TRUE, !.dcdEnable[c] = TRUE]
    OBVIOUS
  <1>2. /\ t \in Chips /\ t.extEnable = [s.extEnable EXCEPT ![c] = TRUE]
        /\ t.dcdEnable = [s.dcdEnable EXCEPT ![c] = TRUE] /\ t.dcd = s.dcd
        /\ t.rr0Prev = s.rr0Prev /\ t.rr0Latched = s.rr0Latched /\ t.intpending = s.intpending
    <2>1. [s.extEnable EXCEPT ![c] = TRUE] \in [Axes -> BOOLEAN]
          /\ [s.dcdEnable EXCEPT ![c] = TRUE] \in [Axes -> BOOLEAN]
      BY DEF Chips
    <2> QED BY <1>1, <2>1 DEF Chips
  <1>3. EnableExt(s, c) = checkExtInt(t, c)
    BY <1>1 DEF EnableExt
  <1> QED BY <1>2, <1>3, SteadyCheck DEF Steady

LEMMA sccInitIs ==
  /\ sccInit \in Chips /\ sccInit.rr0Prev = sccInit.dcd /\ Presents(sccInit)
  /\ sccInit.intpending = {}
  /\ \A c \in Axes : /\ sccInit.dcd[c] = 1 /\ sccInit.rr0Latched[c] = None
                     /\ sccInit.extEnable[c] = FALSE /\ sccInit.dcdEnable[c] = FALSE
  <1>1. /\ EachAxis(1) \in [Axes -> 0 .. 1] /\ EachAxis(None) \in [Axes -> {None, 0, 1}]
        /\ EachAxis(FALSE) \in [Axes -> BOOLEAN]
        /\ \A c \in Axes : \A v : EachAxis(v)[c] = v
    BY DEF EachAxis
  <1> HIDE DEF EachAxis
  <1> QED BY <1>1 DEF sccInit, Chips, Presents, Active
(***************************************************************************)
(* The interrupt is presented: types, the distances of an exploration, and *)
(* what the chip wants of the CPU.                                         *)
(***************************************************************************)
Shape ==
    /\ host \in [d : [Axes -> -HostMax .. HostMax], button : BOOLEAN]
    /\ mouse.d \in [Axes -> -MaxCdx .. MaxCdx] /\ mouse.rp \in [Axes -> Int]
    /\ pb \in [Axes -> 0 .. 1]
    /\ scc \in Chips /\ scc.rr0Prev = scc.dcd
    /\ kind \in [inTime : BOOLEAN, forcesReset : BOOLEAN]
    /\ guest \in [pc : {"boot", "user", "ack", "ext", "reset"}, chan : Axes \cup {"none"}]
    /\ guest.pc \in {"ext", "reset"} => guest.chan \in Axes

\* The axis where it is, with the motion mouse.c holds, and with all of it.
Within(t, d, h) == {t, t + d, (t + d) + 2 * h} \subseteq -MaxPosition .. MaxPosition
Reach == \A c \in Axes : Within(Toward(c) * mouse.rp[c], mouse.d[c], host.d[c])

Kept == /\ Active(scc) => scc.irqPending = TRUE
        /\ guest.pc = "user" => Presents(scc)

LEMMA Bounds ==
  HostMax \in Nat \ {0} /\ MaxCdx \in Nat \ {0} /\ MaxPosition \in Nat \ {0}
  BY MouseAssumption

LEMMA ClampIs ==
  ASSUME NEW v \in Int, NEW m \in Nat
  PROVE  /\ Clamp(v, m) \in -m .. m
         /\ v >= 0 => 0 <= Clamp(v, m) /\ Clamp(v, m) <= v
         /\ v <= 0 => v <= Clamp(v, m) /\ Clamp(v, m) <= 0
  BY DEF Clamp

LEMMA PhaseIs ==
  ASSUME NEW rp \in Int
  PROVE  PhaseA(rp) \in 0 .. 1 /\ PhaseB(rp) \in 0 .. 1
  BY DEF PhaseA, PhaseB

LEMMA EachAxisIs ==
  ASSUME NEW v
  PROVE  /\ \A c \in Axes : EachAxis(v)[c] = v
         /\ \A S : v \in S => EachAxis(v) \in [Axes -> S]
  BY DEF EachAxis

\* A step of quadrature, axis by axis.
Drained(c) == Clamp(mouse.d[c] + 2 * host.d[c], MaxCdx)
Stepped(c) == mouse.rp[c] + Toward(c) * Sign(Drained(c))

LEMMA TickIs ==
  ASSUME Shape, mouseTick
  PROVE  /\ \A c \in Axes : /\ mouse'.rp[c] = Stepped(c)
                            /\ mouse'.d[c] = Drained(c) - Sign(Drained(c))
         /\ mouse'.rp \in [Axes -> Int] /\ mouse'.d \in [Axes -> -MaxCdx .. MaxCdx]
         /\ mouse'.last = Lines(mouse'.rp, host.button)
         /\ host' = [host EXCEPT !.d = EachAxis(0)] /\ UNCHANGED <<kind, guest, count>>
         /\ \/ mouse'.last = mouse.last /\ UNCHANGED <<pb, scc>>
            \/ /\ mouse'.last # mouse.last
               /\ pb' = [c \in Axes |-> PhaseB(mouse'.rp[c])]
               /\ scc' = sccSetDcd(sccSetDcd(scc, "A", PhaseA(mouse'.rp["A"])), "B", PhaseA(mouse'.rp["B"]))
  <1> DEFINE d == [c \in Axes |-> Clamp(mouse.d[c] + 2 * host.d[c], MaxCdx)]
             rp == [c \in Axes |-> mouse.rp[c] + Toward(c) * Sign(d[c])]
             lines == Lines(rp, host.button)
  <1>1. /\ mouse' = [d |-> [c \in Axes |-> d[c] - Sign(d[c])], rp |-> rp, last |-> lines]
        /\ IF lines # mouse.last
           THEN /\ pb' = [c \in Axes |-> PhaseB(rp[c])]
                /\ scc' = sccSetDcd(sccSetDcd(scc, "A", PhaseA(rp["A"])), "B", PhaseA(rp["B"]))
           ELSE UNCHANGED <<pb, scc>>
        /\ host' = [host EXCEPT !.d = EachAxis(0)] /\ UNCHANGED <<kind, guest, count>>
    BY DEF mouseTick
  <1>2. \A c \in Axes : /\ mouse.d[c] \in -MaxCdx .. MaxCdx /\ host.d[c] \in -HostMax .. HostMax
                        /\ mouse.rp[c] \in Int /\ Toward(c) \in {-1, 1}
    BY DEF Shape, Toward
  <1>3. \A c \in Axes : /\ d[c] = Drained(c) /\ Drained(c) \in -MaxCdx .. MaxCdx
                        /\ Sign(Drained(c)) \in {-1, 0, 1}
                        /\ Drained(c) - Sign(Drained(c)) \in -MaxCdx .. MaxCdx
    <2> SUFFICES ASSUME NEW c \in Axes
                 PROVE  /\ Drained(c) \in -MaxCdx .. MaxCdx /\ Sign(Drained(c)) \in {-1, 0, 1}
                        /\ Drained(c) - Sign(Drained(c)) \in -MaxCdx .. MaxCdx
      BY DEF Drained
    <2>1. mouse.d[c] + 2 * host.d[c] \in Int /\ MaxCdx \in Nat
      BY <1>2, Bounds
    <2>2. Drained(c) \in -MaxCdx .. MaxCdx
      BY <2>1, ClampIs DEF Drained
    <2> HIDE DEF Drained
    <2> QED BY <2>1, <2>2 DEF Sign
  <1>4. \A c \in Axes : rp[c] = Stepped(c) /\ Stepped(c) \in Int
    BY <1>2, <1>3 DEF Stepped
  <1> HIDE DEF d, rp, lines
  <1>5. mouse'.rp = rp /\ mouse'.last = lines /\ mouse'.d = [c \in Axes |-> d[c] - Sign(d[c])]
    BY <1>1
  <1>6. lines = Lines(mouse'.rp, host.button)
    BY <1>5 DEF lines
  <1>7. rp \in [Axes -> Int]
    BY <1>4 DEF rp
  <1> QED BY <1>1, <1>3, <1>4, <1>5, <1>6, <1>7
\* Presenting both lines: each axis whose line changes is latched and pends.
Changed(c) == PhaseA(mouse'.rp[c]) # scc.dcd[c] /\ scc.dcdEnable[c] = TRUE

LEMMA PresentIs ==
  ASSUME Shape, mouse'.rp \in [Axes -> Int],
         scc' = sccSetDcd(sccSetDcd(scc, "A", PhaseA(mouse'.rp["A"])), "B", PhaseA(mouse'.rp["B"]))
  PROVE  /\ scc' \in Chips /\ Presents(scc') /\ scc'.rr0Prev = scc'.dcd
         /\ scc'.extEnable = scc.extEnable /\ scc'.dcdEnable = scc.dcdEnable
         /\ \A c \in Axes : /\ scc'.dcd[c] = PhaseA(mouse'.rp[c])
                            /\ c \in scc'.intpending <=> c \in scc.intpending \/ Changed(c)
                            /\ scc'.rr0Latched[c] = IF Changed(c) THEN PhaseA(mouse'.rp[c])
                                                    ELSE scc.rr0Latched[c]
  <1>1. PICK a, b : a = PhaseA(mouse'.rp["A"]) /\ b = PhaseA(mouse'.rp["B"])
    OBVIOUS
  <1>2. a \in 0 .. 1 /\ b \in 0 .. 1 /\ "A" \in Axes /\ "B" \in Axes /\ Axes = {"A", "B"}
    BY <1>1, PhaseIs DEF Axes
  <1>3. scc \in Chips /\ scc.rr0Prev = scc.dcd
    BY DEF Shape
  <1>4. PICK t : t = sccSetDcd(scc, "A", a)
    OBVIOUS
  <1> DEFINE ca == a # scc.dcd["A"] /\ scc.dcdEnable["A"] = TRUE
             cb == b # t.dcd["B"] /\ t.dcdEnable["B"] = TRUE
  <1>5. /\ t \in Chips /\ t.extEnable = scc.extEnable /\ t.dcdEnable = scc.dcdEnable
        /\ t.dcd = [scc.dcd EXCEPT !["A"] = a] /\ t.rr0Prev = t.dcd
        /\ t.intpending = IF ca THEN scc.intpending \cup {"A"} ELSE scc.intpending
        /\ t.rr0Latched = IF ca THEN [scc.rr0Latched EXCEPT !["A"] = a] ELSE scc.rr0Latched
    BY <1>2, <1>3, <1>4, SetDcdIs
  <1>6. scc' = sccSetDcd(t, "B", b)
    BY <1>1, <1>4
  <1>7. /\ scc' \in Chips /\ Presents(scc') /\ scc'.rr0Prev = scc'.dcd
        /\ scc'.extEnable = t.extEnable /\ scc'.dcdEnable = t.dcdEnable
        /\ scc'.dcd = [t.dcd EXCEPT !["B"] = b]
        /\ scc'.intpending = IF cb THEN t.intpending \cup {"B"} ELSE t.intpending
        /\ scc'.rr0Latched = IF cb THEN [t.rr0Latched EXCEPT !["B"] = b] ELSE t.rr0Latched
    <2>1. t \in Chips /\ t.rr0Prev = t.dcd
      BY <1>5
    <2>2. PICK u : u = sccSetDcd(t, "B", b)
      OBVIOUS
    <2>3. /\ u \in Chips /\ Presents(u) /\ u.rr0Prev = u.dcd
          /\ u.extEnable = t.extEnable /\ u.dcdEnable = t.dcdEnable
          /\ u.dcd = [t.dcd EXCEPT !["B"] = b]
          /\ u.intpending = IF cb THEN t.intpending \cup {"B"} ELSE t.intpending
          /\ u.rr0Latched = IF cb THEN [t.rr0Latched EXCEPT !["B"] = b] ELSE t.rr0Latched
      BY <1>2, <2>1, <2>2, SetDcdIs
    <2> QED BY <1>6, <2>2, <2>3
  <1>8. scc.dcd \in [Axes -> 0 .. 1] /\ scc.rr0Latched \in [Axes -> {None, 0, 1}]
        /\ t.dcd \in [Axes -> 0 .. 1] /\ t.rr0Latched \in [Axes -> {None, 0, 1}]
    BY <1>3, <1>5 DEF Chips
  <1>9. (ca <=> Changed("A")) /\ (cb <=> Changed("B"))
    BY <1>1, <1>2, <1>5, <1>8 DEF Changed
  <1> HIDE DEF ca, cb
  <1>10. scc'.dcd["A"] = a /\ scc'.dcd["B"] = b
    BY <1>2, <1>5, <1>7, <1>8
  <1>11. /\ "A" \in scc'.intpending <=> "A" \in scc.intpending \/ ca
         /\ "B" \in scc'.intpending <=> "B" \in scc.intpending \/ cb
    BY <1>5, <1>7
  <1>12. /\ scc'.rr0Latched["A"] = IF ca THEN a ELSE scc.rr0Latched["A"]
         /\ scc'.rr0Latched["B"] = IF cb THEN b ELSE scc.rr0Latched["B"]
    <2>1. /\ t.rr0Latched["A"] = IF ca THEN a ELSE scc.rr0Latched["A"]
          /\ t.rr0Latched["B"] = scc.rr0Latched["B"]
      BY <1>2, <1>5, <1>8
    <2>2. /\ scc'.rr0Latched["A"] = t.rr0Latched["A"]
          /\ scc'.rr0Latched["B"] = IF cb THEN b ELSE t.rr0Latched["B"]
      BY <1>2, <1>7, <1>8
    <2> QED BY <2>1, <2>2
  <1> QED BY <1>1, <1>2, <1>5, <1>7, <1>9, <1>10, <1>11, <1>12

\* The ROM's initialisation of the chip.
LEMMA GuestInitIs ==
  ASSUME Shape, GuestInit
  PROVE  LET s == IF kind.forcesReset = TRUE THEN sccInit ELSE scc
         IN  /\ Steady(s, scc') /\ scc'.intpending = s.intpending /\ scc'.rr0Latched = s.rr0Latched
             /\ \A c \in Axes : scc'.extEnable[c] = TRUE /\ scc'.dcdEnable[c] = TRUE
  <1>1. "A" \in Axes /\ "B" \in Axes /\ Axes = {"A", "B"}
    BY DEF Axes
  <1>2. PICK s : s = IF kind.forcesReset THEN checkExtInt(sccInit, "A") ELSE scc
    OBVIOUS
  <1>3. PICK s0 : s0 = IF kind.forcesReset = TRUE THEN sccInit ELSE scc
    OBVIOUS
  <1>4. /\ s \in Chips /\ s.rr0Prev = s.dcd /\ s.dcd = s0.dcd
        /\ s.intpending = s0.intpending /\ s.rr0Latched = s0.rr0Latched
    <2>1. CASE kind.forcesReset = TRUE
      <3>1. s = checkExtInt(sccInit, "A") /\ s0 = sccInit
        BY <1>2, <1>3, <2>1
      <3> HIDE DEF sccInit
      <3> QED BY <1>1, <3>1, sccInitIs, SteadyCheck DEF Steady
    <2>2. CASE kind.forcesReset = FALSE
      <3>1. s = scc /\ s0 = scc
        BY <1>2, <1>3, <2>2
      <3> QED BY <3>1 DEF Shape
    <2>3. kind.forcesReset \in BOOLEAN
      BY DEF Shape
    <2> QED BY <2>1, <2>2, <2>3
  <1>5. PICK u : u = EnableExt(s, "A")
    OBVIOUS
  <1>6. scc' = EnableExt(u, "B")
    BY <1>2, <1>5 DEF GuestInit
  <1>7. /\ Steady(s, u) /\ u.extEnable = [s.extEnable EXCEPT !["A"] = TRUE]
        /\ u.dcdEnable = [s.dcdEnable EXCEPT !["A"] = TRUE]
        /\ u.intpending = s.intpending /\ u.rr0Latched = s.rr0Latched
    BY <1>1, <1>4, <1>5, EnableExtIs
  <1>8. /\ Steady(u, scc') /\ scc'.extEnable = [u.extEnable EXCEPT !["B"] = TRUE]
        /\ scc'.dcdEnable = [u.dcdEnable EXCEPT !["B"] = TRUE]
        /\ scc'.intpending = u.intpending /\ scc'.rr0Latched = u.rr0Latched
    <2>1. u \in Chips /\ u.rr0Prev = u.dcd
      BY <1>7 DEF Steady
    <2> QED BY <1>1, <1>6, <2>1, EnableExtIs
  <1>9. s.extEnable \in [Axes -> BOOLEAN] /\ s.dcdEnable \in [Axes -> BOOLEAN]
    BY <1>4 DEF Chips
  <1>10. /\ scc'.extEnable["A"] = TRUE /\ scc'.extEnable["B"] = TRUE
         /\ scc'.dcdEnable["A"] = TRUE /\ scc'.dcdEnable["B"] = TRUE
    BY <1>1, <1>7, <1>8, <1>9
  <1>11. Steady(s0, scc') /\ scc'.intpending = s0.intpending /\ scc'.rr0Latched = s0.rr0Latched
    BY <1>4, <1>7, <1>8 DEF Steady
  <1> QED BY <1>1, <1>3, <1>10, <1>11

IrqInv == Shape /\ Reach /\ Kept

LEMMA IrqInit == Init => IrqInv
  <1> SUFFICES ASSUME Init PROVE IrqInv
    OBVIOUS
  <1>1. kind \in [inTime : BOOLEAN, forcesReset : BOOLEAN]
    BY MouseAssumption DEF Init
  <1>2. 0 \in -HostMax .. HostMax /\ 0 \in -MaxCdx .. MaxCdx /\ 0 \in -MaxPosition .. MaxPosition
    BY Bounds
  <1>3. Shape
    <2>1. host = [d |-> EachAxis(0), button |-> FALSE] /\ mouse.d = EachAxis(0) /\ mouse.rp = EachAxis(0)
          /\ pb = EachAxis(0) /\ scc = sccInit /\ guest = [pc |-> "boot", chan |-> "none"]
      BY DEF Init, mouseReset
    <2>2. /\ EachAxis(0) \in [Axes -> -HostMax .. HostMax] /\ EachAxis(0) \in [Axes -> -MaxCdx .. MaxCdx]
          /\ EachAxis(0) \in [Axes -> Int] /\ EachAxis(0) \in [Axes -> 0 .. 1]
      BY <1>2 DEF EachAxis
    <2> HIDE DEF EachAxis, sccInit
    <2> QED BY <1>1, <2>1, <2>2, sccInitIs DEF Shape
  <1>4. Reach
    <2>1. \A c \in Axes : mouse.rp[c] = 0 /\ mouse.d[c] = 0 /\ host.d[c] = 0
      BY EachAxisIs DEF Init, mouseReset
    <2> QED BY <1>2, <2>1 DEF Reach, Within, Toward
  <1>5. Kept
    <2>1. scc = sccInit /\ guest.pc = "boot"
      BY DEF Init
    <2> QED BY <2>1, sccInitIs DEF Kept, Active
  <1> QED BY <1>3, <1>4, <1>5 DEF IrqInv
\* An exploration that keeps within its bound goes on doing so.
LEMMA ReachMove ==
  ASSUME NEW t \in Int, NEW d \in Int, NEW h \in -HostMax .. HostMax, NEW s \in -1 .. 1,
         Within(t, d, h), (t + d) + 2 * (h + s) \in -MaxPosition .. MaxPosition
  PROVE  Within(t, d, Clamp(h + s, HostMax))
  <1> DEFINE k == Clamp(h + s, HostMax)
             M == MaxPosition
  <1>1. HostMax \in Nat \ {0} /\ M \in Nat
    BY Bounds
  <1>2. k \in Int /\ (s = 0 => k = h) /\ (s = 1 => k = h + 1 \/ k = h) /\ (s = -1 => k = h + s \/ k = h)
    BY <1>1 DEF Clamp
  <1>3. k = h + s \/ k = h
    BY <1>2
  <1> HIDE DEF k
  <1>4. ASSUME k = h PROVE Within(t, d, k)
    BY <1>4
  <1>5. ASSUME k = h + s PROVE Within(t, d, k)
    <2>1. Within(t, d, h + s)
      BY DEF Within
    <2> QED BY <1>5, <2>1
  <1>6. Within(t, d, k)
    BY <1>3, <1>4, <1>5
  <1> QED BY <1>6 DEF k

LEMMA ReachStep ==
  ASSUME NEW t \in Int, NEW d \in Int, NEW h \in Int, Within(t, d, h)
  PROVE  LET e == Clamp(d + 2 * h, MaxCdx) IN Within(t + Sign(e), e - Sign(e), 0)
  <1> DEFINE M == MaxPosition
  <1>1. PICK e \in Int : e = Clamp(d + 2 * h, MaxCdx)
    BY Bounds DEF Clamp
  <1>2. M \in Nat /\ MaxCdx \in Nat
    BY Bounds
  <1>3. /\ (d + 2 * h) >= 0 => 0 <= e /\ e <= d + 2 * h
        /\ (d + 2 * h) <= 0 => (d + 2 * h) <= e /\ e <= 0
    <2>1. PICK v \in Int : v = d + 2 * h
      OBVIOUS
    <2>2. e = Clamp(v, MaxCdx)
      BY <1>1, <2>1
    <2>3. (v >= 0 => 0 <= e /\ e <= v) /\ (v <= 0 => v <= e /\ e <= 0)
      BY <1>2, <2>2, ClampIs
    <2> QED BY <2>1, <2>3
  <1>4. t \in -M .. M /\ (t + d) + 2 * h \in -M .. M
    BY DEF Within
  <1>5. t + e \in -M .. M
    BY <1>2, <1>3, <1>4
  <1>6. Sign(e) \in -1 .. 1 /\ (e > 0 => Sign(e) = 1) /\ (e < 0 => Sign(e) = -1) /\ (e = 0 => Sign(e) = 0)
    BY DEF Sign
  <1>7. t + Sign(e) \in -M .. M
    BY <1>2, <1>4, <1>5, <1>6
  <1>8. (t + Sign(e)) + (e - Sign(e)) = t + e /\ ((t + Sign(e)) + (e - Sign(e))) + 2 * 0 = t + e
    BY <1>6
  <1> QED BY <1>1, <1>5, <1>7, <1>8 DEF Within

LEMMA IrqStep ==
  ASSUME IrqInv, [Next]_vars
  PROVE  IrqInv'
  <1>0. Shape /\ Reach /\ Kept
    BY DEF IrqInv
  <1>1. /\ host \in [d : [Axes -> -HostMax .. HostMax], button : BOOLEAN]
        /\ mouse.d \in [Axes -> -MaxCdx .. MaxCdx] /\ mouse.rp \in [Axes -> Int]
        /\ pb \in [Axes -> 0 .. 1] /\ scc \in Chips /\ scc.rr0Prev = scc.dcd
        /\ guest \in [pc : {"boot", "user", "ack", "ext", "reset"}, chan : Axes \cup {"none"}]
        /\ guest.pc \in {"ext", "reset"} => guest.chan \in Axes
    BY <1>0 DEF Shape
  \* The chip as one of its operations leaves it.
  <1>2. ASSUME scc' \in Chips, scc'.rr0Prev = scc'.dcd, Presents(scc') PROVE Kept'
    BY <1>2 DEF Kept, Presents, Active
  <1>3. ASSUME NEW dx \in -1 .. 1, NEW dy \in -1 .. 1, NEW button \in BOOLEAN,
               inputHostMouseMove(dx, dy, button)
        PROVE  IrqInv'
    <2> DEFINE step == [c \in Axes |-> IF c = "A" THEN dx ELSE dy]
    <2>1. /\ \A c \in Axes : Heading(c) + 2 * step[c] \in -MaxPosition .. MaxPosition
          /\ host' = [d |-> [c \in Axes |-> Clamp(host.d[c] + step[c], HostMax)], button |-> button]
          /\ UNCHANGED <<mouse, pb, scc, kind, guest>>
      BY <1>3 DEF inputHostMouseMove
    <2>2. \A c \in Axes : step[c] \in -1 .. 1 /\ host.d[c] \in -HostMax .. HostMax
                          /\ mouse.d[c] \in Int /\ Toward(c) * mouse.rp[c] \in Int
      BY <1>1 DEF Toward
    <2> HIDE DEF step
    <2>3. \A c \in Axes : Clamp(host.d[c] + step[c], HostMax) \in -HostMax .. HostMax
      <3> SUFFICES ASSUME NEW c \in Axes PROVE Clamp(host.d[c] + step[c], HostMax) \in -HostMax .. HostMax
        OBVIOUS
      <3>1. HostMax \in Nat
        BY Bounds
      <3>2. PICK v \in Int : v = host.d[c] + step[c]
        BY <2>2, <3>1
      <3> QED BY <3>1, <3>2, ClampIs
    <2>4. host' \in [d : [Axes -> -HostMax .. HostMax], button : BOOLEAN]
          /\ \A c \in Axes : host'.d[c] = Clamp(host.d[c] + step[c], HostMax)
      BY <2>1, <2>3
    <2>5. Shape'
      BY <1>0, <2>1, <2>4 DEF Shape
    <2>6. ASSUME NEW c \in Axes
          PROVE  Within(Toward(c) * mouse.rp[c], mouse.d[c], host'.d[c])
      <3>1. PICK t, d, h, s : t = Toward(c) * mouse.rp[c] /\ d = mouse.d[c] /\ h = host.d[c] /\ s = step[c]
        OBVIOUS
      <3>2. t \in Int /\ d \in Int /\ h \in -HostMax .. HostMax /\ s \in -1 .. 1 /\ h \in Int /\ s \in Int
        BY <2>2, <3>1, Bounds
      <3>3. Within(t, d, h)
        BY <1>0, <3>1 DEF Reach
      <3>4. ((t + d) + 2 * h) + 2 * s \in -MaxPosition .. MaxPosition
        BY <2>1, <3>1 DEF Heading
      <3>5. ((t + d) + 2 * h) + 2 * s = (t + d) + 2 * (h + s)
        BY <3>2
      <3>6. Within(t, d, Clamp(h + s, HostMax))
        BY <3>2, <3>3, <3>4, <3>5, ReachMove
      <3> QED BY <2>4, <3>1, <3>6
    <2>7. Reach'
      BY <2>1, <2>6 DEF Reach, Within, Toward, Axes
    <2>8. Kept'
      BY <1>0, <2>1 DEF Kept, Presents, Active
    <2> QED BY <2>5, <2>7, <2>8 DEF IrqInv
  <1>4. ASSUME inputHostReleaseMouse PROVE IrqInv'
    <2>1. host' = [d |-> EachAxis(0), button |-> FALSE] /\ UNCHANGED <<mouse, pb, scc, kind, guest>>
      BY <1>4 DEF inputHostReleaseMouse
    <2>2. 0 \in -HostMax .. HostMax
      BY Bounds
    <2>3. host' \in [d : [Axes -> -HostMax .. HostMax], button : BOOLEAN]
          /\ \A c \in Axes : host'.d[c] = 0
      BY <2>1, <2>2 DEF EachAxis
    <2>4. Shape'
      BY <1>0, <2>1, <2>3 DEF Shape
    <2>5. ASSUME NEW c \in Axes
          PROVE  Within(Toward(c) * mouse.rp[c], mouse.d[c], 0)
      <3>1. PICK t \in Int, d \in Int : t = Toward(c) * mouse.rp[c] /\ d = mouse.d[c]
        BY <1>1 DEF Toward
      <3>2. (t + d) + 2 * 0 = t + d
        OBVIOUS
      <3> QED BY <1>0, <3>1, <3>2 DEF Reach, Within
    <2>6. Reach'
      BY <2>1, <2>3, <2>5 DEF Reach, Within, Toward, Axes
    <2>7. Kept'
      BY <1>0, <2>1 DEF Kept, Presents, Active
    <2> QED BY <2>4, <2>6, <2>7 DEF IrqInv
  <1>5. ASSUME mouseTick PROVE IrqInv'
    <2>1. /\ \A c \in Axes : mouse'.rp[c] = Stepped(c) /\ mouse'.d[c] = Drained(c) - Sign(Drained(c))
          /\ mouse'.rp \in [Axes -> Int] /\ mouse'.d \in [Axes -> -MaxCdx .. MaxCdx]
          /\ host' = [host EXCEPT !.d = EachAxis(0)] /\ UNCHANGED <<kind, guest>>
      BY <1>0, <1>5, TickIs
    <2>2. 0 \in -HostMax .. HostMax
      BY Bounds
    <2>3. host' \in [d : [Axes -> -HostMax .. HostMax], button : BOOLEAN]
          /\ \A c \in Axes : host'.d[c] = 0
      BY <1>1, <2>1, <2>2 DEF EachAxis
    <2>4. pb' \in [Axes -> 0 .. 1] /\ scc' \in Chips /\ scc'.rr0Prev = scc'.dcd /\ Kept'
      <3>1. CASE UNCHANGED <<pb, scc>>
        BY <1>0, <1>1, <2>1, <3>1 DEF Kept, Presents, Active
      <3>2. CASE /\ pb' = [c \in Axes |-> PhaseB(mouse'.rp[c])]
                 /\ scc' = sccSetDcd(sccSetDcd(scc, "A", PhaseA(mouse'.rp["A"])), "B", PhaseA(mouse'.rp["B"]))
        <4>1. scc' \in Chips /\ Presents(scc') /\ scc'.rr0Prev = scc'.dcd
          BY <1>0, <2>1, <3>2, PresentIs
        <4>2. \A c \in Axes : PhaseB(mouse'.rp[c]) \in 0 .. 1
          BY <2>1, PhaseIs
        <4> QED BY <1>2, <3>2, <4>1, <4>2
      <3> QED BY <1>0, <1>5, <3>1, <3>2, TickIs
    <2>5. Shape'
      BY <1>0, <2>1, <2>3, <2>4 DEF Shape
    <2>6. ASSUME NEW c \in Axes
          PROVE  Within(Toward(c) * mouse'.rp[c], mouse'.d[c], 0)
      <3>1. PICK t \in Int, d \in Int, h \in Int :
              t = Toward(c) * mouse.rp[c] /\ d = mouse.d[c] /\ h = host.d[c]
        BY <1>1 DEF Toward
      <3>2. Within(t, d, h)
        BY <1>0, <3>1 DEF Reach
      <3>3. PICK e : e = Clamp(d + 2 * h, MaxCdx)
        OBVIOUS
      <3>4. Within(t + Sign(e), e - Sign(e), 0)
        BY <3>2, <3>3, ReachStep
      <3>5. Drained(c) = e
        BY <3>1, <3>3 DEF Drained
      <3>6. Toward(c) \in {-1, 1} /\ Sign(e) \in {-1, 0, 1} /\ mouse.rp[c] \in Int
        BY <1>1 DEF Toward, Sign
      <3>7. Toward(c) * mouse'.rp[c] = t + Sign(e)
        <4>1. mouse'.rp[c] = mouse.rp[c] + Toward(c) * Sign(e)
          BY <2>1, <3>5 DEF Stepped
        <4>2. PICK r \in Int, x \in {-1, 0, 1} : r = mouse.rp[c] /\ x = Sign(e)
          BY <3>6
        <4>3. CASE Toward(c) = 1
          BY <3>1, <4>1, <4>2, <4>3
        <4>4. CASE Toward(c) = -1
          BY <3>1, <4>1, <4>2, <4>4
        <4> QED BY <3>6, <4>3, <4>4
      <3> QED BY <2>1, <3>4, <3>5, <3>7
    <2>7. Reach'
      BY <2>3, <2>6 DEF Reach, Within, Toward, Axes
    <2> QED BY <2>4, <2>5, <2>7 DEF IrqInv
  <1>6. ASSUME viaIrq PROVE IrqInv'
    <2>1. /\ scc' = [scc EXCEPT !.level = scc.irqPending] /\ UNCHANGED <<host, mouse, pb, guest, kind>>
      BY <1>6 DEF viaIrq
    <2>2. scc' \in Chips /\ SameInputs(scc, scc') /\ scc'.irqPending = scc.irqPending
          /\ scc'.level = scc.irqPending
      BY <1>1, <2>1 DEF Chips, SameInputs
    <2>3. Kept'
      BY <1>0, <2>1, <2>2 DEF Kept, Presents, Active, SameInputs
    <2>4. Shape' /\ Reach'
      BY <1>0, <2>1, <2>2 DEF Shape, Reach, SameInputs, Within, Toward
    <2> QED BY <2>3, <2>4 DEF IrqInv
  <1>7. ASSUME MacReset PROVE IrqInv'
    <2>1. /\ mouse' = mouseReset /\ pb' = EachAxis(0) /\ scc' = sccInit
          /\ guest' = [pc |-> "boot", chan |-> "none"]
          /\ host' = [d |-> EachAxis(0), button |-> FALSE] /\ kind' = kind
      BY <1>7 DEF MacReset
    <2>2. 0 \in -HostMax .. HostMax /\ 0 \in -MaxCdx .. MaxCdx /\ 0 \in -MaxPosition .. MaxPosition
      BY Bounds
    <2>3. /\ EachAxis(0) \in [Axes -> -HostMax .. HostMax] /\ EachAxis(0) \in [Axes -> -MaxCdx .. MaxCdx]
          /\ EachAxis(0) \in [Axes -> Int] /\ EachAxis(0) \in [Axes -> 0 .. 1]
      BY <2>2 DEF EachAxis
    <2>4. mouse'.d = EachAxis(0) /\ mouse'.rp = EachAxis(0) /\ host'.d = EachAxis(0)
      BY <2>1 DEF mouseReset
    <2>5. Shape'
      <3> HIDE DEF EachAxis, sccInit
      <3> QED BY <1>0, <2>1, <2>3, <2>4, sccInitIs DEF Shape
    <2>6. Reach'
      <3>1. \A c \in Axes : EachAxis(0)[c] = 0
        BY DEF EachAxis
      <3> QED BY <2>2, <2>4, <3>1 DEF Reach, Within, Toward
    <2>7. Kept'
      BY <1>2, <2>1, sccInitIs
    <2> QED BY <2>5, <2>6, <2>7 DEF IrqInv
  <1>8. ASSUME scc' \in Chips, scc'.rr0Prev = scc'.dcd, UNCHANGED <<host, mouse, pb, kind>>,
               guest' \in [pc : {"boot", "user", "ack", "ext", "reset"}, chan : Axes \cup {"none"}],
               guest'.pc \in {"ext", "reset"} => guest'.chan \in Axes, Kept'
        PROVE  IrqInv'
    BY <1>0, <1>8 DEF IrqInv, Shape, Reach, Within, Toward
  <1>9. ASSUME GuestInit PROVE IrqInv'
    <2>1. PICK s : Steady(s, scc')
      BY <1>0, <1>9, GuestInitIs
    <2>2. Kept'
      BY <1>2, <2>1 DEF Steady
    <2>3. guest' = [guest EXCEPT !.pc = "user"] /\ UNCHANGED <<host, mouse, pb, kind>>
      BY <1>9 DEF GuestInit
    <2> QED BY <1>1, <1>8, <2>1, <2>2, <2>3 DEF Steady
  <1>10. ASSUME Acknowledge PROVE IrqInv'
    <2>1. /\ scc' = [scc EXCEPT !.level = FALSE] /\ guest' = [guest EXCEPT !.pc = "ack"]
          /\ UNCHANGED <<host, mouse, pb, kind>>
      BY <1>10 DEF Acknowledge
    <2>2. scc' \in Chips /\ SameInputs(scc, scc') /\ scc'.irqPending = scc.irqPending
      BY <1>1, <2>1 DEF Chips, SameInputs
    <2>3. guest' \in [pc : {"boot", "user", "ack", "ext", "reset"}, chan : Axes \cup {"none"}]
          /\ guest'.pc = "ack"
      BY <1>1, <2>1
    <2>4. Kept'
      BY <1>0, <2>2, <2>3 DEF Kept, Active, SameInputs
    <2> QED BY <1>1, <1>8, <2>1, <2>2, <2>3, <2>4 DEF SameInputs
  <1>11. ASSUME HandlerReadRR2 PROVE IrqInv'
    <2>1. scc' = ReadRR2(scc) /\ UNCHANGED <<host, mouse, pb, kind>>
      BY <1>11 DEF HandlerReadRR2
    <2>2. Steady(scc, scc')
      BY <1>1, <2>1, ReadRR2Is
    <2>3. guest' \in [pc : {"boot", "user", "ack", "ext", "reset"}, chan : Axes \cup {"none"}]
          /\ (guest'.pc \in {"ext", "reset"} => guest'.chan \in Axes)
      <3>1. CASE Rr2Source(scc) = "none"
        <4>1. guest' = [guest EXCEPT !.pc = "user"]
          BY <1>11, <3>1 DEF HandlerReadRR2
        <4> QED BY <1>1, <4>1
      <3>2. CASE Rr2Source(scc) # "none"
        <4>1. guest' = [pc |-> "ext", chan |-> Rr2Source(scc)] /\ Rr2Source(scc) \in Axes
          BY <1>11, <3>2 DEF HandlerReadRR2, Rr2Source, Axes
        <4> QED BY <4>1
      <3> QED BY <3>1, <3>2
    <2>4. Kept'
      BY <1>2, <2>2 DEF Steady
    <2> QED BY <1>8, <2>1, <2>2, <2>3, <2>4 DEF Steady
  <1>12. ASSUME HandlerCount PROVE IrqInv'
    <2>1. scc' = ReadRR0(scc, guest.chan) /\ guest' = [guest EXCEPT !.pc = "reset"]
          /\ UNCHANGED <<host, mouse, pb, kind>> /\ guest.chan \in Axes
      BY <1>1, <1>12 DEF HandlerCount
    <2>2. Steady(scc, scc')
      BY <1>1, <2>1, ReadRR0Is
    <2>3. Kept'
      BY <1>2, <2>2 DEF Steady
    <2> QED BY <1>1, <1>8, <2>1, <2>2, <2>3 DEF Steady
  <1>13. ASSUME HandlerResetExt PROVE IrqInv'
    <2>1. scc' = ResetExt(scc, guest.chan) /\ guest' = [pc |-> "user", chan |-> "none"]
          /\ UNCHANGED <<host, mouse, pb, kind>> /\ guest.chan \in Axes
      BY <1>1, <1>13 DEF HandlerResetExt
    <2>2. Steady(scc, scc')
      BY <1>1, <2>1, ResetExtIs
    <2>3. Kept'
      BY <1>2, <2>2 DEF Steady
    <2> QED BY <1>8, <2>1, <2>2, <2>3 DEF Steady
  <1>14. ASSUME UNCHANGED vars PROVE IrqInv'
    BY <1>0, <1>14 DEF vars, IrqInv, Shape, Reach, Kept, Within, Toward, Presents, Active
  <1> QED BY <1>3, <1>4, <1>5, <1>6, <1>7, <1>9, <1>10, <1>11, <1>12, <1>13, <1>14 DEF Next
\* Whatever the guest does, an enabled DCD source that is pending is presented to
\* it whenever it is outside its handler: for every limit of the accumulators,
\* every distance moved, and guests that are late or reset the chip.
THEOREM MouseIrqIsPresented == MouseSpec => []IrqPresented
  <1>1. Init => IrqInv
    BY IrqInit
  <1>2. IrqInv /\ [Next]_vars => IrqInv'
    BY IrqStep
  <1>3. IrqInv => IrqPresented
    <2> SUFFICES ASSUME IrqInv PROVE IrqPresented
      OBVIOUS
    <2>1. Shape /\ Reach /\ Kept
      BY DEF IrqInv
    <2>2. MouseTypeOK
      <3>1. \A c \in Axes : mouse.rp[c] \in -MaxPosition .. MaxPosition
        <4> SUFFICES ASSUME NEW c \in Axes PROVE mouse.rp[c] \in -MaxPosition .. MaxPosition
          OBVIOUS
        <4>1. mouse.rp[c] \in Int /\ Toward(c) * mouse.rp[c] \in -MaxPosition .. MaxPosition
          BY <2>1 DEF Shape, Reach, Within
        <4>2. CASE Toward(c) = 1
          BY <4>1, <4>2
        <4>3. CASE Toward(c) = -1
          BY <4>1, <4>3, Bounds
        <4> QED BY <4>2, <4>3 DEF Toward
      <3>2. mouse.rp \in [Axes -> -MaxPosition .. MaxPosition]
        BY <2>1, <3>1 DEF Shape
      <3> QED BY <2>1, <3>2 DEF Shape, Chips, MouseTypeOK
    <2>3. ASSUME guest.pc = "user", NEW c \in scc.intpending, scc.extEnable[c]
          PROVE  scc.level
      <3>1. Active(scc)
        BY <2>1, <2>3 DEF Active, Shape, Chips
      <3> QED BY <2>1, <2>3, <3>1 DEF Kept, Presents
    <2> QED BY <2>2, <2>3 DEF IrqPresented
  <1> QED BY <1>1, <1>2, <1>3, PTL DEF MouseSpec

(***************************************************************************)
(* The motion: a line that changed is an edge the guest still has to       *)
(* count, from the moment it is latched until the handler reads RR0.       *)
(***************************************************************************)
Uncounted(c) == c \in scc.intpending \/ (guest.pc = "ext" /\ guest.chan = c)

\* A forced reset may put an axis off by an edge.
Off(forced) == IF forced = TRUE THEN -1 .. 1 ELSE {0}

\* An axis with latched line l, lines d and b, phase r and count n: every edge is
\* counted, or the chip still has the line a forced reset gave it; and the line that
\* changed last is to be counted.
Settled(l, d, r, n, forced) ==
    /\ l = None
    /\ \/ d = PhaseA(r) /\ n - Edges(r) \in Off(forced)
       \/ forced = TRUE /\ d = 1 /\ PhaseA(r) = 0 /\ n = Edges(r)
Waiting(l, d, b, r, n, forced) ==
    /\ l = d /\ d = PhaseA(r)
    /\ (n + (IF d # b THEN 1 ELSE -1)) - Edges(r) \in Off(forced)

Followed(c) ==
    /\ Uncounted(c) => Waiting(scc.rr0Latched[c], scc.dcd[c], pb[c], mouse.rp[c], count[c], kind.forcesReset)
    /\ ~Uncounted(c) => Settled(scc.rr0Latched[c], scc.dcd[c], mouse.rp[c], count[c], kind.forcesReset)

Booting ==
    /\ scc.intpending = {}
    /\ \A c \in Axes : scc.dcdEnable[c] = FALSE /\ scc.rr0Latched[c] = None
    /\ mouse.last # <<>> => \A c \in Axes : scc.dcd[c] = PhaseA(mouse.rp[c])

Counting ==
    /\ \A c \in Axes : scc.extEnable[c] = TRUE /\ scc.dcdEnable[c] = TRUE
    /\ guest.pc \in {"ext", "reset"} => guest.chan \notin scc.intpending
    /\ \A c \in Axes : Followed(c)

Motion ==
    /\ count \in [Axes -> Int]
    /\ mouse.last # <<>> => \E b \in BOOLEAN : mouse.last = Lines(mouse.rp, b)
    /\ \A c \in Axes : pb[c] = PhaseB(mouse.rp[c])
    /\ guest.pc = "boot" => Booting
    /\ guest.pc # "boot" => mouse.last # <<>>
    /\ guest.pc # "boot" /\ kind.inTime = TRUE => Counting

LEMMA EdgesAre ==
  ASSUME NEW r \in Int, NEW s \in {-1, 0, 1}
  PROVE  LET q == r + s
         IN  /\ Edges(q) \in Int /\ Edges(r) \in Int /\ Edges(q) - Edges(r) \in -1 .. 1
             /\ PhaseA(q) = PhaseA(r) => Edges(q) = Edges(r)
             /\ PhaseA(q) # PhaseA(r) => Edges(q) - Edges(r) = IF PhaseA(q) # PhaseB(q) THEN 1 ELSE -1
             /\ PhaseA(q) = PhaseA(r) /\ PhaseB(q) = PhaseB(r) => q = r
  <1> DEFINE k == r \div 4
             m == r % 4
  <1>1. k \in Int /\ m \in 0 .. 3 /\ r = 4 * k + m
    OBVIOUS
  <1>2. ASSUME NEW j \in Int, NEW n \in -1 .. 4
        PROVE  /\ (4 * j + n) % 4 = IF n = -1 THEN 3 ELSE IF n = 4 THEN 0 ELSE n
               /\ ((4 * j + n) + 1) \div 2 = 2 * j + (IF n >= 3 THEN 2 ELSE IF n >= 1 THEN 1 ELSE 0)
    OBVIOUS
  <1>3. m + s \in -1 .. 4 /\ m \in -1 .. 4 /\ r + s = 4 * k + (m + s)
    BY <1>1
  <1>4. /\ (r + s) % 4 = IF m + s = -1 THEN 3 ELSE IF m + s = 4 THEN 0 ELSE m + s
        /\ Edges(r + s) = 2 * k + (IF m + s >= 3 THEN 2 ELSE IF m + s >= 1 THEN 1 ELSE 0)
        /\ r % 4 = m
        /\ Edges(r) = 2 * k + (IF m >= 3 THEN 2 ELSE IF m >= 1 THEN 1 ELSE 0)
    BY <1>1, <1>2, <1>3 DEF Edges
  <1> HIDE DEF k, m
  <1> QED BY <1>1, <1>3, <1>4 DEF PhaseA, PhaseB
LEMMA TickAxis ==
  ASSUME NEW r \in Int, NEW s \in {-1, 0, 1}, NEW n \in Int, NEW d \in 0 .. 1, NEW l,
         NEW forced \in BOOLEAN, Settled(l, d, r, n, forced)
  PROVE  LET q == r + s
         IN  /\ PhaseA(q) # d => Waiting(PhaseA(q), PhaseA(q), PhaseB(q), q, n, forced)
             /\ PhaseA(q) = d => Settled(l, PhaseA(q), q, n, forced)
  <1>1. PICK q \in Int : q = r + s
    OBVIOUS
  <1>2. /\ Edges(q) \in Int /\ Edges(r) \in Int /\ Edges(q) - Edges(r) \in -1 .. 1
        /\ PhaseA(q) = PhaseA(r) => Edges(q) = Edges(r)
        /\ PhaseA(q) # PhaseA(r) => Edges(q) - Edges(r) = IF PhaseA(q) # PhaseB(q) THEN 1 ELSE -1
    BY <1>1, EdgesAre
  <1>3. PhaseA(q) \in 0 .. 1 /\ PhaseA(r) \in 0 .. 1 /\ PhaseB(q) \in 0 .. 1
    BY PhaseIs
  <1>4. PICK e \in Int, f \in Int : e = Edges(q) /\ f = Edges(r)
    BY <1>2
  <1>5. CASE d = PhaseA(r)
    <2>1. l = None /\ n - f \in Off(forced)
      BY <1>3, <1>4, <1>5 DEF Settled
    <2>2. ASSUME PhaseA(q) # d PROVE Waiting(PhaseA(q), PhaseA(q), PhaseB(q), q, n, forced)
      <3>1. e - f = IF PhaseA(q) # PhaseB(q) THEN 1 ELSE -1
        BY <1>2, <1>4, <1>5, <2>2
      <3>2. (n + (IF PhaseA(q) # PhaseB(q) THEN 1 ELSE -1)) - e = n - f
        BY <3>1
      <3> QED BY <1>4, <2>1, <3>2 DEF Waiting
    <2>3. ASSUME PhaseA(q) = d PROVE Settled(l, PhaseA(q), q, n, forced)
      BY <1>2, <1>4, <1>5, <2>1, <2>3 DEF Settled
    <2> QED BY <1>1, <2>2, <2>3
  <1>6. CASE d # PhaseA(r)
    <2>1. l = None /\ forced = TRUE /\ d = 1 /\ PhaseA(r) = 0 /\ n = f
      BY <1>4, <1>6 DEF Settled
    <2>2. Off(forced) = -1 .. 1
      BY <2>1 DEF Off
    <2>3. ASSUME PhaseA(q) # d PROVE Waiting(PhaseA(q), PhaseA(q), PhaseB(q), q, n, forced)
      <3>1. e = f
        BY <1>2, <1>3, <1>4, <2>1, <2>3
      <3>2. (n + (IF PhaseA(q) # PhaseB(q) THEN 1 ELSE -1)) - e \in -1 .. 1
        BY <2>1, <3>1
      <3> QED BY <1>4, <2>2, <3>2 DEF Waiting
    <2>4. ASSUME PhaseA(q) = d PROVE Settled(l, PhaseA(q), q, n, forced)
      <3>1. n - e \in -1 .. 1
        BY <1>2, <1>4, <2>1
      <3> QED BY <1>4, <2>1, <2>2, <3>1 DEF Settled
    <2> QED BY <1>1, <2>3, <2>4
  <1> QED BY <1>5, <1>6

\* The lines tell the phase.
LEMMA LinesAre ==
  ASSUME NEW f \in [Axes -> Int], NEW g \in [Axes -> Int], NEW a, NEW b, Lines(f, a) = Lines(g, b)
  PROVE  \A c \in Axes : PhaseA(f[c]) = PhaseA(g[c]) /\ PhaseB(f[c]) = PhaseB(g[c])
  <1> DEFINE F == [c \in Axes |-> <<PhaseA(f[c]), PhaseB(f[c])>>]
             G == [c \in Axes |-> <<PhaseA(g[c]), PhaseB(g[c])>>]
  <1>1. <<F, a>> = <<G, b>>
    BY DEF Lines
  <1>2. F = G
    <2> HIDE DEF F, G
    <2> QED BY <1>1
  <1>3. \A c \in Axes : F[c] = <<PhaseA(f[c]), PhaseB(f[c])>> /\ G[c] = <<PhaseA(g[c]), PhaseB(g[c])>>
    OBVIOUS
  <1> HIDE DEF F, G
  <1>4. \A c \in Axes : <<PhaseA(f[c]), PhaseB(f[c])>> = <<PhaseA(g[c]), PhaseB(g[c])>>
    BY <1>2, <1>3
  <1>5. \A x, y, z, w : <<x, y>> = <<z, w>> => x = z /\ y = w
    OBVIOUS
  <1> QED BY <1>4, <1>5

LEMMA LinesThere == \A f, b : Lines(f, b) # <<>>
  BY DEF Lines
LEMMA MotionInit == Init => Motion
  <1> SUFFICES ASSUME Init PROVE Motion
    OBVIOUS
  <1>1. /\ mouse = mouseReset /\ pb = EachAxis(0) /\ scc = sccInit /\ count = EachAxis(0)
        /\ guest.pc = "boot"
    BY DEF Init
  <1>2. mouse.last = <<>> /\ \A c \in Axes : mouse.rp[c] = 0 /\ pb[c] = 0
    BY <1>1 DEF mouseReset, EachAxis
  <1>3. count \in [Axes -> Int] /\ PhaseB(0) = 0
    BY <1>1 DEF EachAxis, PhaseB
  <1>4. Booting
    BY <1>1, <1>2, sccInitIs DEF Booting
  <1> QED BY <1>1, <1>2, <1>3, <1>4 DEF Motion

\* A step of quadrature, before the guest counts and as it does.
LEMMA MotionTick ==
  ASSUME IrqInv, Motion, mouseTick
  PROVE  Motion'
  <1>1. Shape /\ Kept
    BY DEF IrqInv
  <1>2. /\ \A c \in Axes : mouse'.rp[c] = Stepped(c)
        /\ mouse'.rp \in [Axes -> Int] /\ mouse'.last = Lines(mouse'.rp, host.button)
        /\ UNCHANGED <<kind, guest, count>>
        /\ \/ mouse'.last = mouse.last /\ UNCHANGED <<pb, scc>>
           \/ /\ mouse'.last # mouse.last
              /\ pb' = [c \in Axes |-> PhaseB(mouse'.rp[c])]
              /\ scc' = sccSetDcd(sccSetDcd(scc, "A", PhaseA(mouse'.rp["A"])), "B", PhaseA(mouse'.rp["B"]))
    BY <1>1, TickIs
  <1>3. host.button \in BOOLEAN /\ mouse.rp \in [Axes -> Int]
        /\ kind.forcesReset \in BOOLEAN /\ kind.inTime \in BOOLEAN /\ scc \in Chips
        /\ scc.dcd \in [Axes -> 0 .. 1] /\ scc.intpending \subseteq Axes
    BY <1>1 DEF Shape, Chips
  <1>4. \A c \in Axes : \E s \in {-1, 0, 1} : mouse'.rp[c] = mouse.rp[c] + s
    <2> SUFFICES ASSUME NEW c \in Axes PROVE \E s \in {-1, 0, 1} : Stepped(c) = mouse.rp[c] + s
      BY <1>2
    <2>1. PICK x \in {-1, 0, 1} : x = Sign(Drained(c))
      BY DEF Sign
    <2>2. Toward(c) \in {-1, 1}
      BY DEF Toward
    <2>3. Toward(c) * x \in {-1, 0, 1}
      BY <2>1, <2>2
    <2> QED BY <2>1, <2>3 DEF Stepped
  <1>5. count \in [Axes -> Int] /\ (guest.pc = "boot" => Booting)
        /\ (guest.pc # "boot" => mouse.last # <<>>)
        /\ (guest.pc # "boot" /\ kind.inTime = TRUE => Counting)
        /\ (mouse.last # <<>> => \E b \in BOOLEAN : mouse.last = Lines(mouse.rp, b))
        /\ \A c \in Axes : pb[c] = PhaseB(mouse.rp[c])
    BY DEF Motion
  <1>6. mouse'.last # <<>> /\ \E b \in BOOLEAN : mouse'.last = Lines(mouse'.rp, b)
    BY <1>2, <1>3, LinesThere
  <1>7. CASE mouse'.last = mouse.last /\ UNCHANGED <<pb, scc>>
    <2>1. PICK b \in BOOLEAN : mouse.last = Lines(mouse.rp, b)
      BY <1>5, <1>6, <1>7
    <2>2. \A c \in Axes : PhaseA(mouse'.rp[c]) = PhaseA(mouse.rp[c]) /\ PhaseB(mouse'.rp[c]) = PhaseB(mouse.rp[c])
      <3>1. Lines(mouse'.rp, host.button) = Lines(mouse.rp, b)
        BY <1>2, <1>7, <2>1
      <3> QED BY <1>2, <1>3, <3>1, LinesAre
    <2>3. \A c \in Axes : mouse'.rp[c] = mouse.rp[c]
      <3> SUFFICES ASSUME NEW c \in Axes PROVE mouse'.rp[c] = mouse.rp[c]
        OBVIOUS
      <3>1. PICK r \in Int, s \in {-1, 0, 1} : r = mouse.rp[c] /\ mouse'.rp[c] = r + s
        BY <1>3, <1>4
      <3>2. PhaseA(r + s) = PhaseA(r) /\ PhaseB(r + s) = PhaseB(r)
        BY <2>2, <3>1
      <3>3. r + s = r
        BY <3>2, EdgesAre
      <3> QED BY <3>1, <3>3
    <2>4. mouse'.rp = mouse.rp
      BY <1>2, <1>3, <2>3
    <2> QED BY <1>2, <1>5, <1>6, <1>7, <2>4
            DEF Motion, Booting, Counting, Followed, Uncounted
  <1>8. CASE /\ pb' = [c \in Axes |-> PhaseB(mouse'.rp[c])]
             /\ scc' = sccSetDcd(sccSetDcd(scc, "A", PhaseA(mouse'.rp["A"])), "B", PhaseA(mouse'.rp["B"]))
    <2>1. /\ scc'.extEnable = scc.extEnable /\ scc'.dcdEnable = scc.dcdEnable /\ scc' \in Chips
          /\ \A c \in Axes : /\ scc'.dcd[c] = PhaseA(mouse'.rp[c])
                             /\ c \in scc'.intpending <=> c \in scc.intpending \/ Changed(c)
                             /\ scc'.rr0Latched[c] = IF Changed(c) THEN PhaseA(mouse'.rp[c])
                                                     ELSE scc.rr0Latched[c]
      BY <1>1, <1>2, <1>8, PresentIs
    <2>2. \A c \in Axes : pb'[c] = PhaseB(mouse'.rp[c])
      BY <1>8
    <2>3. ASSUME guest.pc = "boot" PROVE Booting'
      <3>1. \A c \in Axes : ~Changed(c)
        BY <1>5, <2>3 DEF Booting, Changed
      <3>2. scc'.intpending \subseteq Axes
        BY <2>1 DEF Chips
      <3>3. scc'.intpending = {}
        BY <1>5, <2>1, <2>3, <3>1, <3>2 DEF Booting
      <3> QED BY <1>5, <2>1, <2>3, <3>1, <3>3 DEF Booting, Axes
    <2>4. ASSUME guest.pc # "boot", kind.inTime = TRUE PROVE Counting'
      <3>1. Counting
        BY <1>5, <2>4
      <3>2. guest.pc = "user" /\ scc.level # TRUE
        BY <2>4 DEF mouseTick
      <3>3. scc.intpending = {}
        BY <1>1, <1>3, <3>1, <3>2 DEF Kept, Presents, Active, Counting
      <3>4. ASSUME NEW c \in Axes PROVE Followed(c)'
        <4>1. ~Uncounted(c)
          BY <3>2, <3>3 DEF Uncounted
        <4>2. Settled(scc.rr0Latched[c], scc.dcd[c], mouse.rp[c], count[c], kind.forcesReset)
          BY <3>1, <4>1 DEF Counting, Followed
        <4>3. PICK r \in Int, s \in {-1, 0, 1} : r = mouse.rp[c] /\ mouse'.rp[c] = r + s
          BY <1>3, <1>4
        <4>4. PICK d \in 0 .. 1, n \in Int : d = scc.dcd[c] /\ n = count[c]
          <5>1. scc.dcd[c] \in 0 .. 1 /\ count[c] \in Int
            BY <1>3, <1>5
          <5> QED BY <5>1
        <4>4a. PICK l, q : l = scc.rr0Latched[c] /\ q = r + s
          OBVIOUS
        <4>5. /\ PhaseA(q) # d => Waiting(PhaseA(q), PhaseA(q), PhaseB(q), q, n, kind.forcesReset)
              /\ PhaseA(q) = d => Settled(l, PhaseA(q), q, n, kind.forcesReset)
          <5>1. Settled(l, d, r, n, kind.forcesReset)
            BY <4>2, <4>3, <4>4, <4>4a
          <5> QED BY <1>3, <4>4a, <5>1, TickAxis
        <4>6. Changed(c) <=> PhaseA(q) # d
          BY <3>1, <4>3, <4>4, <4>4a DEF Changed, Counting
        <4>7. Uncounted(c)' <=> PhaseA(q) # d
          <5>1. Uncounted(c)' <=> c \in scc'.intpending \/ (guest'.pc = "ext" /\ guest'.chan = c)
            BY DEF Uncounted
          <5>2. guest'.pc = "user"
            BY <1>2, <3>2
          <5> QED BY <2>1, <3>3, <4>6, <5>1, <5>2
        <4>8. /\ scc'.dcd[c] = PhaseA(q) /\ pb'[c] = PhaseB(q) /\ mouse'.rp[c] = q /\ count'[c] = n
              /\ kind'.forcesReset = kind.forcesReset
              /\ scc'.rr0Latched[c] = IF PhaseA(q) # d THEN PhaseA(q) ELSE l
          BY <1>2, <2>1, <2>2, <4>3, <4>4, <4>4a, <4>6
        <4>9. CASE PhaseA(q) # d
          <5>1. Waiting(PhaseA(q), PhaseA(q), PhaseB(q), q, n, kind.forcesReset)
            BY <4>5, <4>9
          <5>2. scc'.rr0Latched[c] = PhaseA(q) /\ Uncounted(c)'
            BY <4>7, <4>8, <4>9
          <5> QED BY <4>8, <5>1, <5>2 DEF Followed
        <4>10. CASE PhaseA(q) = d
          <5>1. Settled(l, PhaseA(q), q, n, kind.forcesReset)
            BY <4>5, <4>10
          <5>2. scc'.rr0Latched[c] = l /\ ~Uncounted(c)'
            BY <4>7, <4>8, <4>10
          <5> QED BY <4>8, <5>1, <5>2 DEF Followed
        <4> QED BY <4>9, <4>10
      <3>5. guest'.pc = "user" /\ \A c \in Axes : scc'.extEnable[c] = TRUE /\ scc'.dcdEnable[c] = TRUE
        BY <1>2, <2>1, <3>1, <3>2 DEF Counting
      <3> QED BY <3>4, <3>5 DEF Counting, Axes
    <2> QED BY <1>2, <1>5, <1>6, <2>2, <2>3, <2>4 DEF Motion, Axes
  <1> QED BY <1>2, <1>7, <1>8
\* The guest's steps: what changes of an axis is that its edge is counted.
LEMMA MotionSame ==
  ASSUME Motion, UNCHANGED <<mouse, pb, kind, count>>, SameInputs(scc, scc'),
         guest.pc # "boot", guest'.pc # "boot", guest'.pc \notin {"ext", "reset"},
         guest.pc # "ext"
  PROVE  Motion'
  BY DEF Motion, Counting, Followed, Uncounted, SameInputs

LEMMA MotionReadRR2 ==
  ASSUME IrqInv, Motion, HandlerReadRR2
  PROVE  Motion'
  <1>1. Shape
    BY DEF IrqInv
  <1>2. scc \in Chips /\ scc.rr0Prev = scc.dcd /\ scc.intpending \subseteq Axes /\ guest.pc = "ack"
    BY <1>1 DEF Shape, Chips, HandlerReadRR2
  <1>3. scc' = ReadRR2(scc) /\ UNCHANGED <<mouse, pb, count, kind>>
    BY DEF HandlerReadRR2
  <1>4. /\ Steady(scc, scc') /\ scc'.extEnable = scc.extEnable /\ scc'.dcdEnable = scc.dcdEnable
        /\ scc'.intpending = scc.intpending \ {Rr2Source(scc)} /\ scc'.rr0Latched = scc.rr0Latched
    BY <1>2, <1>3, ReadRR2Is
  <1>5. CASE Rr2Source(scc) = "none"
    <2>1. guest'.pc = "user"
      BY <1>1, <1>5 DEF HandlerReadRR2, Shape
    <2>2. scc'.intpending = scc.intpending
      BY <1>2, <1>4, <1>5 DEF Axes
    <2> QED BY <1>2, <1>3, <1>4, <2>1, <2>2 DEF Steady, Motion, Counting, Followed, Uncounted
  <1>6. CASE Rr2Source(scc) # "none"
    <2>1. PICK c \in Axes : c = Rr2Source(scc) /\ c \in scc.intpending
      BY <1>6 DEF Rr2Source, Axes
    <2>2. guest' = [pc |-> "ext", chan |-> c]
      BY <1>6, <2>1 DEF HandlerReadRR2
    <2>3. guest'.pc = "ext" /\ guest'.chan = c /\ scc'.intpending = scc.intpending \ {c}
      BY <1>4, <2>1, <2>2
    <2>4. \A a \in Axes : Uncounted(a)' <=> Uncounted(a)
      BY <1>2, <2>1, <2>3 DEF Uncounted
    <2> QED BY <1>2, <1>3, <1>4, <2>3, <2>4 DEF Steady, Motion, Counting, Followed, Axes
  <1> QED BY <1>5, <1>6

LEMMA MotionCount ==
  ASSUME IrqInv, Motion, HandlerCount
  PROVE  Motion'
  <1>1. Shape
    BY DEF IrqInv
  <1>2. PICK c \in Axes : c = guest.chan
    BY <1>1 DEF Shape, HandlerCount
  <1>3. /\ scc \in Chips /\ scc.rr0Prev = scc.dcd /\ guest.pc = "ext"
        /\ scc.rr0Latched \in [Axes -> {None, 0, 1}] /\ scc.dcd \in [Axes -> 0 .. 1]
        /\ kind.inTime \in BOOLEAN /\ kind.forcesReset \in BOOLEAN
    BY <1>1 DEF Shape, Chips, HandlerCount
  <1>4. /\ scc' = ReadRR0(scc, c) /\ UNCHANGED <<mouse, pb, kind>>
        /\ count' = IF kind.inTime
                    THEN [count EXCEPT ![c] = IF Rr0(scc, c) # pb[c] THEN @ + 1 ELSE @ - 1]
                    ELSE count
    BY <1>2 DEF HandlerCount
  <1>5. guest'.pc = "reset" /\ guest'.chan = c
    BY <1>1, <1>2 DEF HandlerCount, Shape
  <1>6. /\ Steady(scc, scc') /\ scc'.extEnable = scc.extEnable /\ scc'.dcdEnable = scc.dcdEnable
        /\ scc'.intpending = scc.intpending /\ scc'.rr0Latched = [scc.rr0Latched EXCEPT ![c] = None]
    BY <1>3, <1>4, ReadRR0Is
  <1>7. CASE kind.inTime = FALSE
    <2>1. count' = count
      BY <1>4, <1>7
    <2> QED BY <1>3, <1>4, <1>5, <1>7, <2>1 DEF Motion
  <1>8. CASE kind.inTime = TRUE
    <2>1. Counting /\ count \in [Axes -> Int]
      BY <1>3, <1>8 DEF Motion
    <2>2. Uncounted(c) /\ c \notin scc.intpending
      BY <1>2, <1>3, <2>1 DEF Uncounted, Counting
    <2>3. PICK d \in 0 .. 1, n \in Int : d = scc.dcd[c] /\ n = count[c]
      <3>1. scc.dcd[c] \in 0 .. 1 /\ count[c] \in Int
        BY <1>3, <2>1
      <3> QED BY <3>1
    <2>4. PICK r : r = mouse.rp[c]
      OBVIOUS
    <2>5. Waiting(d, d, pb[c], r, n, kind.forcesReset) /\ scc.rr0Latched[c] = d
      <3>1. Waiting(scc.rr0Latched[c], d, pb[c], r, n, kind.forcesReset)
        BY <2>1, <2>2, <2>3, <2>4 DEF Counting, Followed
      <3> QED BY <3>1 DEF Waiting
    <2>6. Rr0(scc, c) = d
      BY <2>5 DEF Rr0, None
    <2>7. count'[c] = n + (IF d # pb[c] THEN 1 ELSE -1) /\ count' \in [Axes -> Int]
          /\ \A a \in Axes : a # c => count'[a] = count[a]
      <3>1. count' = [count EXCEPT ![c] = IF d # pb[c] THEN @ + 1 ELSE @ - 1]
        BY <1>4, <1>8, <2>6
      <3> QED BY <2>1, <2>3, <3>1
    <2>8. Settled(None, d, r, count'[c], kind.forcesReset)
      BY <2>5, <2>7 DEF Waiting, Settled
    <2>9. ~Uncounted(c)' /\ scc'.rr0Latched[c] = None /\ scc'.dcd = scc.dcd
      BY <1>3, <1>5, <1>6, <2>2 DEF Uncounted, Steady
    <2>10. Followed(c)'
      BY <1>4, <2>3, <2>4, <2>8, <2>9 DEF Followed
    <2>11. ASSUME NEW a \in Axes, a # c PROVE Followed(a)'
      <3>1. Followed(a) /\ (Uncounted(a)' <=> Uncounted(a))
        BY <1>2, <1>3, <1>5, <1>6, <2>1, <2>11 DEF Counting, Uncounted
      <3>2. scc'.rr0Latched[a] = scc.rr0Latched[a] /\ scc'.dcd[a] = scc.dcd[a]
        BY <1>3, <1>6, <2>11 DEF Steady
      <3> QED BY <1>4, <2>7, <2>11, <3>1, <3>2 DEF Followed
    <2>12. Counting'
      BY <1>2, <1>3, <1>5, <1>6, <2>1, <2>2, <2>10, <2>11 DEF Counting, Axes
    <2> QED BY <1>3, <1>4, <1>5, <2>7, <2>12 DEF Motion
  <1> QED BY <1>3, <1>7, <1>8

LEMMA MotionReset ==
  ASSUME IrqInv, Motion, HandlerResetExt
  PROVE  Motion'
  <1>1. Shape
    BY DEF IrqInv
  <1>2. PICK c \in Axes : c = guest.chan
    BY <1>1 DEF Shape, HandlerResetExt
  <1>3. /\ scc \in Chips /\ scc.rr0Prev = scc.dcd /\ guest.pc = "reset"
        /\ scc.rr0Latched \in [Axes -> {None, 0, 1}]
    BY <1>1 DEF Shape, Chips, HandlerResetExt
  <1>4. scc' = ResetExt(scc, c) /\ UNCHANGED <<mouse, pb, kind, count>>
    BY <1>2 DEF HandlerResetExt
  <1>5. guest'.pc = "user"
    BY DEF HandlerResetExt
  <1>6. /\ Steady(scc, scc') /\ scc'.extEnable = scc.extEnable /\ scc'.dcdEnable = scc.dcdEnable
        /\ scc'.intpending = scc.intpending \ {c}
        /\ scc'.rr0Latched = [scc.rr0Latched EXCEPT ![c] = None]
    BY <1>3, <1>4, ResetExtIs
  <1>7. CASE kind.inTime # TRUE
    BY <1>3, <1>4, <1>5, <1>7 DEF Motion
  <1>8. CASE kind.inTime = TRUE
    <2>1. Counting
      BY <1>3, <1>8 DEF Motion
    <2>2. c \notin scc.intpending
      BY <1>2, <1>3, <2>1 DEF Counting
    <2>3. \A a \in Axes : Uncounted(a)' <=> Uncounted(a)
      BY <1>3, <1>5, <1>6, <2>2 DEF Uncounted
    <2>4. scc.rr0Latched[c] = None
      <3>1. ~Uncounted(c)
        BY <1>3, <2>2 DEF Uncounted
      <3> QED BY <2>1, <3>1 DEF Counting, Followed, Settled
    <2>5. scc'.rr0Latched = scc.rr0Latched /\ scc'.dcd = scc.dcd
      BY <1>3, <1>6, <2>4 DEF Steady
    <2>6. Counting'
      BY <1>4, <1>5, <1>6, <2>1, <2>3, <2>5 DEF Counting, Followed, Axes
    <2> QED BY <1>3, <1>4, <1>5, <2>6 DEF Motion
  <1> QED BY <1>7, <1>8

LEMMA MotionGuestInit ==
  ASSUME IrqInv, Motion, GuestInit
  PROVE  Motion'
  <1>1. Shape
    BY DEF IrqInv
  <1>2. /\ guest.pc = "boot" /\ mouse.last # <<>> /\ UNCHANGED <<mouse, pb, kind>>
        /\ count' = IF kind.inTime THEN [c \in Axes |-> Edges(mouse.rp[c])] ELSE count
    BY DEF GuestInit
  <1>3. guest'.pc = "user"
    BY <1>1 DEF GuestInit, Shape
  <1>4. Booting /\ count \in [Axes -> Int] /\ mouse.rp \in [Axes -> Int] /\ kind.forcesReset \in BOOLEAN
    BY <1>1, <1>2 DEF Motion, Shape
  <1>5. \A c \in Axes : Edges(mouse.rp[c]) \in Int
    BY <1>4, EdgesAre
  <1>6. count' \in [Axes -> Int]
    BY <1>2, <1>4, <1>5
  <1>7. ASSUME kind.inTime = TRUE PROVE Counting'
    <2>1. /\ \A c \in Axes : scc'.extEnable[c] = TRUE /\ scc'.dcdEnable[c] = TRUE
          /\ scc'.intpending = {}
          /\ \A c \in Axes : /\ scc'.rr0Latched[c] = None
                             /\ IF kind.forcesReset = TRUE THEN scc'.dcd[c] = 1
                                ELSE scc'.dcd[c] = PhaseA(mouse.rp[c])
      <3>1. CASE kind.forcesReset = TRUE
        <4>1. /\ Steady(sccInit, scc') /\ scc'.intpending = sccInit.intpending
              /\ scc'.rr0Latched = sccInit.rr0Latched
              /\ \A c \in Axes : scc'.extEnable[c] = TRUE /\ scc'.dcdEnable[c] = TRUE
          BY <1>1, <3>1, GuestInitIs
        <4> QED BY <3>1, <4>1, sccInitIs DEF Steady
      <3>2. CASE kind.forcesReset # TRUE
        <4>1. /\ Steady(scc, scc') /\ scc'.intpending = scc.intpending
              /\ scc'.rr0Latched = scc.rr0Latched
              /\ \A c \in Axes : scc'.extEnable[c] = TRUE /\ scc'.dcdEnable[c] = TRUE
          BY <1>1, <3>2, GuestInitIs
        <4> QED BY <1>2, <1>4, <3>2, <4>1 DEF Steady, Booting
      <3> QED BY <3>1, <3>2
    <2>2. \A c \in Axes : ~Uncounted(c)'
      BY <1>3, <2>1 DEF Uncounted
    <2>3. \A c \in Axes : count'[c] = Edges(mouse.rp[c])
      BY <1>2, <1>7
    <2>4. ASSUME NEW c \in Axes
          PROVE  Settled(None, scc'.dcd[c], mouse.rp[c], count'[c], kind.forcesReset)
      <3>1. count'[c] - Edges(mouse.rp[c]) = 0 /\ 0 \in Off(kind.forcesReset)
        BY <1>5, <2>3 DEF Off
      <3>2. PhaseA(mouse.rp[c]) \in 0 .. 1
        BY <1>4, PhaseIs
      <3>3. CASE scc'.dcd[c] = PhaseA(mouse.rp[c])
        BY <3>1, <3>3 DEF Settled
      <3>4. CASE scc'.dcd[c] # PhaseA(mouse.rp[c])
        <4>1. kind.forcesReset = TRUE /\ scc'.dcd[c] = 1
          BY <2>1, <3>4
        <4>2. PhaseA(mouse.rp[c]) = 0
          BY <3>2, <3>4, <4>1
        <4> QED BY <2>3, <4>1, <4>2 DEF Settled
      <3> QED BY <3>3, <3>4
    <2>5. \A c \in Axes : Followed(c)'
      BY <1>2, <2>1, <2>2, <2>4 DEF Followed
    <2> QED BY <1>3, <2>1, <2>5 DEF Counting, Axes
  <1> QED BY <1>2, <1>3, <1>6, <1>7 DEF Motion

LEMMA MotionMacReset ==
  ASSUME MacReset
  PROVE  Motion'
  <1>1. /\ mouse' = mouseReset /\ pb' = EachAxis(0) /\ scc' = sccInit /\ count' = EachAxis(0)
        /\ guest'.pc = "boot"
    BY DEF MacReset
  <1>2. mouse'.last = <<>> /\ \A c \in Axes : mouse'.rp[c] = 0 /\ pb'[c] = 0
    BY <1>1 DEF mouseReset, EachAxis
  <1>3. count' \in [Axes -> Int] /\ PhaseB(0) = 0
    BY <1>1 DEF EachAxis, PhaseB
  <1>4. Booting'
    BY <1>1, <1>2, sccInitIs DEF Booting, Axes
  <1> QED BY <1>1, <1>2, <1>3, <1>4 DEF Motion, Axes

LEMMA MotionStep ==
  ASSUME IrqInv, Motion, [Next]_vars
  PROVE  Motion'
  <1>1. Shape
    BY DEF IrqInv
  <1>2. ASSUME UNCHANGED <<mouse, pb, scc, kind, guest, count>> PROVE Motion'
    BY <1>2 DEF Motion, Booting, Counting, Followed, Uncounted
  <1>3. ASSUME NEW dx, NEW dy, NEW button, inputHostMouseMove(dx, dy, button) PROVE Motion'
    BY <1>2, <1>3 DEF inputHostMouseMove
  <1>4. ASSUME inputHostReleaseMouse PROVE Motion'
    BY <1>2, <1>4 DEF inputHostReleaseMouse
  <1>5. ASSUME viaIrq PROVE Motion'
    <2>1. SameInputs(scc, scc') /\ UNCHANGED <<mouse, pb, guest, count, kind>>
      BY <1>1, <1>5 DEF viaIrq, Shape, Chips, SameInputs
    <2> QED BY <2>1 DEF Motion, Booting, Counting, Followed, Uncounted, SameInputs
  <1>6. ASSUME Acknowledge PROVE Motion'
    <2>1. SameInputs(scc, scc') /\ UNCHANGED <<mouse, pb, count, kind>>
      BY <1>1, <1>6 DEF Acknowledge, Shape, Chips, SameInputs
    <2>2. guest.pc = "user" /\ guest'.pc = "ack"
      BY <1>1, <1>6 DEF Acknowledge, Shape
    <2> QED BY <2>1, <2>2, MotionSame
  <1>7. ASSUME UNCHANGED vars PROVE Motion'
    BY <1>2, <1>7 DEF vars
  <1> QED BY <1>3, <1>4, <1>5, <1>6, <1>7, MotionTick, MotionReadRR2, MotionCount, MotionReset,
             MotionGuestInit, MotionMacReset DEF Next

\* However far the mouse moves, and however its edges, the guest's interrupts and
\* resets interleave: between two interrupts a guest whose handler keeps up has
\* counted exactly the position of the phase, but for the one edge each axis may
\* lose or gain for ever when the guest forces a reset of the chip.
THEOREM MouseMotionIsExact == MouseSpec => []MotionExact
  <1>1. Init => IrqInv /\ Motion
    BY IrqInit, MotionInit
  <1>2. IrqInv /\ Motion /\ [Next]_vars => IrqInv' /\ Motion'
    BY IrqStep, MotionStep
  <1>3. IrqInv /\ Motion => MotionExact
    <2> SUFFICES ASSUME IrqInv, Motion, Quiet, kind.inTime, NEW c \in Axes
                 PROVE  LET off == count[c] - Edges(mouse.rp[c])
                        IN  IF kind.forcesReset THEN off \in -1 .. 1 ELSE off = 0
      BY DEF MotionExact
    <2>1. Shape /\ guest.pc = "user" /\ scc.intpending = {}
      BY DEF IrqInv, Quiet
    <2>2. kind.inTime = TRUE /\ kind.forcesReset \in BOOLEAN /\ mouse.rp[c] \in Int
      BY <2>1 DEF Shape
    <2>3. Counting /\ ~Uncounted(c) /\ count[c] \in Int
      BY <2>1, <2>2 DEF Motion, Uncounted
    <2>4. Settled(scc.rr0Latched[c], scc.dcd[c], mouse.rp[c], count[c], kind.forcesReset)
      BY <2>3 DEF Counting, Followed
    <2>5. PICK n \in Int, e \in Int : n = count[c] /\ e = Edges(mouse.rp[c])
      <3>1. Edges(mouse.rp[c]) \in Int
        BY <2>2, EdgesAre
      <3> QED BY <2>3, <3>1
    <2>6. n - e \in Off(kind.forcesReset) \/ (kind.forcesReset = TRUE /\ n = e)
      BY <2>4, <2>5 DEF Settled
    <2>7. kind.forcesReset = TRUE => n - e \in -1 .. 1
      BY <2>6 DEF Off
    <2>8. kind.forcesReset = FALSE => n - e = 0
      BY <2>6 DEF Off
    <2> QED BY <2>2, <2>5, <2>7, <2>8
  <1> QED BY <1>1, <1>2, <1>3, PTL DEF MouseSpec

-----------------------------------------------------------------------------
(* THE DISKS: types.                                                       *)

BusStates  == {"idle", "arb", "arbdone", "select", "seldone", "data"}
BusLines   == {"SEL", "DBUS", "BSY", "ACK", "RST"}
BankNames  == {"cmd", "data", "msg"}
BlockSet   == [Blocks -> Nat \cup {Nil}]
BankSet    == [cmd : [1 .. 4 -> Nat], data : [1 .. BufBlocks -> Nat], msg : [1 .. 1 -> Nat]]
NcrSet     == [state : BusStates, selected : Targets, tcr : Phases, buf : BankNames,
               mode : SUBSET {"ARB", "DMA"}, inicmd : SUBSET BusLines, din : Nat, dout : Nat,
               bufpos : Nat, datalen : Nat]
Room(b)    == CASE b = "cmd" -> 4 [] b = "data" -> BufBlocks [] b = "msg" -> 1

DriverPlaces == {"free", "arb", "won", "target", "select", "busy", "poll", "found", "absent",
                 "toCommand", "command", "cmdAck", "cmdUnack", "dataIn", "dataOut", "dmaIn",
                 "dmaOut", "toStatus", "status", "statusAck", "statusUnack", "toMessage",
                 "message", "msgUnack", "done", "reset"}

RegisterTypes ==
    /\ media \in [Images -> BlockSet] /\ ncr \in NcrSet /\ bank \in BankSet
    /\ ncr.bufpos <= Room(ncr.buf) /\ calls \in Nat

DriverTypes ==
    /\ world \in Worlds /\ pc \in DriverPlaces /\ req \in Requests /\ sent \in Nat
    /\ got \in Seq(Nat) /\ status \in Nat \cup {Nil} /\ commands \in Nat
    /\ pc \in {"dataIn", "dmaIn"} => DataPhase = "dataIn"
    /\ pc \in {"dataOut", "dmaOut"} => DataPhase = "dataOut"

ScsiTypes == RegisterTypes /\ DriverTypes

-----------------------------------------------------------------------------
(* The registers. *)

LEMMA Given ==
    /\ Size \in Nat \ {0} /\ BufBlocks \in Nat \ {0} /\ EraseBlocks \in Nat \ {0}
    /\ OffsetBlocks \in Nat /\ 2 * Size < OffsetBlocks
    /\ Vals \subseteq Nat /\ 0 \in Targets /\ Targets \subseteq 0 .. 7
    /\ \A w \in Worlds : DOMAIN w.card \subseteq Images \ {Flash}
BY Zenon, ScsiAssumption DEF ScsiAssumption

LEMMA GivenRequests ==
    ASSUME NEW r \in Requests
    PROVE  /\ r.target \in Targets /\ r.target \in Nat
           /\ r.op \in 0 .. 255 /\ r.op \in Nat /\ r.lba \in Nat /\ r.len \in Nat
<1>1. r.target \in Targets /\ r.op \in 0 .. 255 /\ r.lba \in Nat /\ r.len \in Nat
    BY Zenon, ScsiAssumption DEF ScsiAssumption
<1>2. 0 .. 255 \subseteq Nat /\ 0 .. 7 \subseteq Nat
    OBVIOUS
<1> QED BY <1>1, <1>2, Given, Zenon

LEMMA GivenWrites ==
    ASSUME NEW r \in Requests
    PROVE  /\ r.vals \in Seq(Vals)
           /\ IsWrite(r.op) => /\ Len(r.vals) = AskedBlocks(r.op, r.len)
                               /\ Len(r.vals) <= BufBlocks
                               /\ \/ At(r.lba) + Len(r.vals) <= Size + 1
                                  \/ 2 * At(r.lba) >= OffsetBlocks
BY Zenon, ScsiAssumption DEF ScsiAssumption

\* Where a byte offset of 32 bits puts a block.
LEMMA AtIs ==
    ASSUME NEW lba \in Nat
    PROVE  /\ At(lba) \in Nat /\ At(lba) < OffsetBlocks
           /\ lba < OffsetBlocks => At(lba) = lba
BY Given DEF At

LEMMA AtAfter ==
    ASSUME NEW lba \in Nat, NEW n \in Nat, At(lba) + n < OffsetBlocks
    PROVE  At(lba + n) = At(lba) + n
<1> DEFINE p == lba \div OffsetBlocks
           a == At(lba)
           q == (lba + n) \div OffsetBlocks
           b == At(lba + n)
<1>1. /\ OffsetBlocks \in Nat /\ OffsetBlocks > 0
      /\ p \in Nat /\ a \in 0 .. OffsetBlocks - 1 /\ lba = OffsetBlocks * p + a
    BY Given DEF At
<1>2. q \in Nat /\ b \in 0 .. OffsetBlocks - 1 /\ lba + n = OffsetBlocks * q + b
  <2>1. PICK x \in Nat : x = lba + n
      OBVIOUS
  <2>2. /\ x \div OffsetBlocks \in Nat /\ x % OffsetBlocks \in 0 .. OffsetBlocks - 1
        /\ x = OffsetBlocks * (x \div OffsetBlocks) + (x % OffsetBlocks)
      BY <1>1
  <2> QED BY <2>1, <2>2 DEF At
<1> HIDE DEF p, a, q, b
<1>3. OffsetBlocks * (q - p) = (a + n) - b
    BY <1>1, <1>2
<1>4. (a + n) - b < OffsetBlocks /\ b - (a + n) < OffsetBlocks
    BY <1>1, <1>2 DEF a
<1>5. CASE q > p
  <2>1. OffsetBlocks * (q - p) >= OffsetBlocks
      BY <1>1, <1>2, <1>5
  <2> QED BY <1>1, <1>2, <1>3, <1>4, <2>1
<1>6. CASE q < p
  <2>1. OffsetBlocks * (p - q) >= OffsetBlocks
      BY <1>1, <1>2, <1>6
  <2>2. OffsetBlocks * (p - q) = b - (a + n)
      BY <1>1, <1>2, <1>3
  <2> QED BY <1>1, <1>2, <1>4, <2>1, <2>2
<1>7. CASE q = p
    BY <1>1, <1>2, <1>3, <1>7 DEF a, b
<1> QED BY <1>1, <1>2, <1>5, <1>6, <1>7

LEMMA TupleLen ==
    ASSUME NEW S, NEW n \in Nat, NEW f \in [1 .. n -> S]
    PROVE  f \in Seq(S) /\ Len(f) = n
OBVIOUS

LEMMA BankRoom ==
    ASSUME NEW bk \in BankSet, NEW b \in BankNames
    PROVE  /\ Len(bk[b]) = Room(b) /\ Room(b) \in Nat /\ Room(b) > 0
           /\ bk[b] \in [1 .. Room(b) -> Nat]
<1>1. BufBlocks \in Nat /\ BufBlocks > 0
    BY Given
<1>2. CASE b = "cmd"
  <2>1. bk[b] \in [1 .. 4 -> Nat]
      BY <1>2 DEF BankSet
  <2> QED BY <1>2, <2>1, TupleLen DEF Room
<1>3. CASE b = "data"
  <2>1. bk[b] \in [1 .. BufBlocks -> Nat]
      BY <1>3 DEF BankSet
  <2> QED BY <1>1, <1>3, <2>1, TupleLen DEF Room
<1>4. CASE b = "msg"
  <2>1. bk[b] \in [1 .. 1 -> Nat]
      BY <1>4 DEF BankSet
  <2> QED BY <1>4, <2>1, TupleLen DEF Room
<1> QED BY <1>2, <1>3, <1>4 DEF BankNames

LEMMA RoomOfBank ==
    ASSUME bank \in BankSet, NEW n \in NcrSet
    PROVE  /\ bufmax(n) = Room(n.buf) /\ Room(n.buf) \in Nat /\ Room(n.buf) > 0
           /\ bank[n.buf] \in [1 .. Room(n.buf) -> Nat]
<1>1. n.buf \in BankNames
    BY DEF NcrSet
<1> QED BY <1>1, BankRoom DEF bufmax

LEMMA FetchIs ==
    ASSUME bank \in BankSet, NEW n \in NcrSet, n.bufpos <= Room(n.buf)
    PROVE  /\ Fetch(n) \in NcrSet /\ Fetch(n).bufpos <= Room(n.buf)
           /\ \A f \in {"state", "selected", "tcr", "buf", "mode", "inicmd", "dout", "datalen"} :
                Fetch(n)[f] = n[f]
           /\ n.bufpos < Room(n.buf) => /\ Fetch(n).din = bank[n.buf][n.bufpos + 1]
                                        /\ Fetch(n).bufpos = n.bufpos + 1
           /\ n.bufpos = Room(n.buf) => Fetch(n) = n
<1>1. /\ bufmax(n) = Room(n.buf) /\ Room(n.buf) \in Nat
      /\ bank[n.buf] \in [1 .. Room(n.buf) -> Nat]
    BY RoomOfBank
<1>2. n.bufpos \in Nat
    BY DEF NcrSet
<1>3. CASE n.bufpos = Room(n.buf)
  <2>1. Fetch(n) = n
      BY <1>1, <1>3 DEF Fetch
  <2>2. ~ (n.bufpos < Room(n.buf))
      BY <1>1, <1>2, <1>3
  <2> QED BY <1>3, <2>1, <2>2
<1>4. CASE n.bufpos # Room(n.buf)
  <2>1. n.bufpos + 1 \in 1 .. Room(n.buf)
      BY <1>1, <1>2, <1>4
  <2>2. PICK x \in Nat, y \in Nat : x = bank[n.buf][n.bufpos + 1] /\ y = n.bufpos + 1
      BY <1>1, <1>2, <2>1
  <2>3. Fetch(n) = [n EXCEPT !.din = x, !.bufpos = y]
      BY <1>1, <1>4, <2>2 DEF Fetch
  <2>4. y <= Room(n.buf)
      BY <2>1, <2>2
  <2> QED BY <1>4, <2>2, <2>3, <2>4 DEF NcrSet
<1> QED BY <1>3, <1>4

LEMMA BusStateIs ==
    ASSUME NEW n \in NcrSet, NEW val \in SUBSET BusLines
    PROVE  /\ BusState(n, val) \in NcrSet
           /\ \A f \in {"tcr", "buf", "mode", "inicmd", "din", "dout", "bufpos", "datalen"} :
                BusState(n, val)[f] = n[f]
           /\ BusState(n, val).selected \in {n.selected, n.dout}
           /\ n.state = "data" => BusState(n, val).state = "data"
<1> DEFINE n1 == IF {"SEL", "DBUS", "BSY"} \subseteq val /\ n.state \in {"arb", "arbdone"}
                 THEN [n EXCEPT !.state = "select",
                                !.selected = IF n.dout \in Targets THEN n.dout ELSE @]
                 ELSE n
           n2 == IF "BSY" \notin val /\ n1.state = "select"
                 THEN [n1 EXCEPT !.state = "seldone"] ELSE n1
           Like(m) == /\ m \in NcrSet
                      /\ \A f \in {"tcr", "buf", "mode", "inicmd", "din", "dout", "bufpos",
                                   "datalen"} : m[f] = n[f]
                      /\ m.selected \in {n.selected, n.dout}
                      /\ n.state = "data" => m.state = "data"
<1>1. Like(n1)
    BY DEF NcrSet, BusStates
<1>2. Like(n2)
  <2> HIDE DEF n1
  <2> QED BY <1>1 DEF NcrSet, BusStates
<1>3. Like(BusState(n, val))
  <2>1. BusState(n, val) =
            IF "SEL" \notin val /\ n2.state = "seldone"
            THEN [n2 EXCEPT !.state = IF Attached(n2.selected) THEN "data" ELSE "idle"] ELSE n2
      BY DEF BusState
  <2>2. PICK s \in BusStates : s = IF Attached(n2.selected) THEN "data" ELSE "idle"
      BY DEF BusStates
  <2> HIDE DEF n1, n2
  <2> QED BY <1>2, <2>1, <2>2 DEF NcrSet, BusStates
<1> QED BY <1>3

\* What a write of register 1 does to the registers and the banks.
LEMMA LinesWritten ==
    ASSUME bank \in BankSet, ncr \in NcrSet, ncr.bufpos <= Room(ncr.buf),
           NEW val \in SUBSET BusLines, WriteInitiatorCommand(val),
           NEW n, n = BusState(ncr, val)
    PROVE  /\ ncr' \in NcrSet /\ bank' \in BankSet /\ ncr'.bufpos <= Room(ncr'.buf)
           /\ ncr'.tcr = ncr.tcr /\ ncr'.buf = ncr.buf /\ ncr'.mode = ncr.mode
           /\ ncr'.inicmd = val /\ ncr'.dout = ncr.dout /\ ncr'.selected = n.selected
           /\ "RST" \notin val => ncr'.state = n.state
           /\ ToInitiator(ncr.tcr) => bank' = bank
           /\ ~ Acks(n, val) => bank' = bank
           /\ ~ Acks(n, val) /\ ~ Unacks(n, val) => ncr'.bufpos = ncr.bufpos
           /\ ~ ToInitiator(ncr.tcr) /\ ~ Acks(n, val) => ncr'.bufpos = ncr.bufpos
           /\ ~ ToInitiator(ncr.tcr) /\ Acks(n, val) /\ ncr.bufpos < Room(ncr.buf) =>
                /\ ncr'.bufpos = ncr.bufpos + 1
                /\ bank' = [bank EXCEPT ![ncr.buf][ncr.bufpos + 1] = ncr.dout]
<1>1. /\ n \in NcrSet /\ n.tcr = ncr.tcr /\ n.buf = ncr.buf /\ n.mode = ncr.mode
      /\ n.inicmd = ncr.inicmd /\ n.dout = ncr.dout /\ n.bufpos = ncr.bufpos
    BY BusStateIs
<1>2. /\ bufmax(n) = Room(ncr.buf) /\ Room(ncr.buf) \in Nat
      /\ bank[ncr.buf] \in [1 .. Room(ncr.buf) -> Nat] /\ ncr.buf \in BankNames
      /\ ncr.bufpos \in Nat /\ ncr.dout \in Nat
    BY <1>1, RoomOfBank DEF NcrSet
<1> DEFINE stores == Acks(n, val) /\ ~ToInitiator(n.tcr) /\ n.bufpos # bufmax(n)
           moved == IF Unacks(n, val) /\ ToInitiator(n.tcr) THEN Fetch(n)
                    ELSE IF stores THEN [n EXCEPT !.bufpos = @ + 1] ELSE n
           Like(m) == /\ m \in NcrSet /\ m.bufpos <= Room(ncr.buf)
                      /\ \A f \in {"state", "selected", "tcr", "buf", "mode", "dout"} : m[f] = n[f]
<1>3. /\ ncr' = [moved EXCEPT !.inicmd = val, !.state = IF "RST" \in val THEN "idle" ELSE @]
      /\ bank' = IF stores THEN [bank EXCEPT ![n.buf][n.bufpos + 1] = n.dout] ELSE bank
    BY DEF WriteInitiatorCommand
<1>4. bank' \in BankSet
  <2>1. CASE stores
    <3>1. ncr.bufpos + 1 \in 1 .. Room(ncr.buf)
        BY <1>1, <1>2, <2>1
    <3>2. PICK k \in 1 .. Room(ncr.buf) : k = ncr.bufpos + 1
        BY <3>1
    <3>3. bank' = [bank EXCEPT ![ncr.buf][k] = ncr.dout]
        BY <1>1, <1>3, <2>1, <3>2
    <3>4. PICK d \in Nat : d = ncr.dout
        BY <1>2
    <3>5. CASE ncr.buf = "cmd"
        BY <3>3, <3>4, <3>5 DEF BankSet, Room
    <3>6. CASE ncr.buf = "data"
        BY <3>3, <3>4, <3>6 DEF BankSet, Room
    <3>7. CASE ncr.buf = "msg"
        BY <3>3, <3>4, <3>7 DEF BankSet, Room
    <3> QED BY <1>2, <3>5, <3>6, <3>7 DEF BankNames
  <2>2. CASE ~ stores
      BY <1>3, <2>2
  <2> QED BY <2>1, <2>2
<1>5. Like(moved)
  <2>1. CASE Unacks(n, val) /\ ToInitiator(n.tcr)
      BY <1>1, <2>1, FetchIs
  <2>2. CASE ~ (Unacks(n, val) /\ ToInitiator(n.tcr)) /\ stores
    <3>1. PICK y \in Nat : y = n.bufpos + 1 /\ y <= Room(ncr.buf)
        BY <1>1, <1>2, <2>2
    <3>2. moved = [n EXCEPT !.bufpos = y]
        BY <2>2, <3>1
    <3> HIDE DEF moved, stores
    <3> QED BY <1>1, <3>1, <3>2 DEF NcrSet
  <2>3. CASE ~ (Unacks(n, val) /\ ToInitiator(n.tcr)) /\ ~ stores
      BY <1>1, <2>3
  <2> QED BY <2>1, <2>2, <2>3
<1>6. /\ stores => moved.bufpos = ncr.bufpos + 1
      /\ ~ stores /\ ~ (Unacks(n, val) /\ ToInitiator(n.tcr)) => moved.bufpos = ncr.bufpos
  <2>1. ASSUME stores PROVE moved.bufpos = ncr.bufpos + 1
    <3>1. moved = [n EXCEPT !.bufpos = @ + 1]
        BY <2>1
    <3> QED BY <1>1, <3>1 DEF NcrSet
  <2> QED BY <1>1, <2>1
<1>7. /\ ncr' \in NcrSet /\ ncr'.bufpos = moved.bufpos /\ ncr'.inicmd = val
      /\ \A f \in {"selected", "tcr", "buf", "mode", "dout"} : ncr'[f] = n[f]
      /\ "RST" \notin val => ncr'.state = n.state
  <2>1. PICK m \in NcrSet : m = moved /\ Like(m)
      BY <1>5
  <2>2. PICK s \in BusStates : s = IF "RST" \in val THEN "idle" ELSE m.state
      BY <2>1 DEF NcrSet, BusStates
  <2>3. ncr' = [m EXCEPT !.inicmd = val, !.state = s]
      BY <1>3, <2>1, <2>2
  <2> HIDE DEF moved, stores
  <2> QED BY <2>1, <2>2, <2>3 DEF NcrSet
<1>8. ToInitiator(ncr.tcr) => ~ stores
    BY <1>1
<1>9. ncr.bufpos < Room(ncr.buf) => ncr.bufpos # bufmax(n)
    BY <1>2
<1>10. ncr'.tcr = ncr.tcr /\ ncr'.buf = ncr.buf /\ ncr'.mode = ncr.mode
      /\ ncr'.inicmd = val /\ ncr'.dout = ncr.dout /\ ncr'.selected = n.selected
      /\ ncr'.bufpos <= Room(ncr'.buf)
    BY <1>1, <1>5, <1>7
<1> HIDE DEF moved
<1> QED BY <1>1, <1>3, <1>4, <1>6, <1>7, <1>8, <1>9, <1>10

LEMMA ModeWritten ==
    ASSUME NEW n \in NcrSet, NEW val \in SUBSET {"ARB", "DMA"}
    PROVE  /\ WriteMode(n, val) \in NcrSet
           /\ \A f \in {"selected", "tcr", "buf", "inicmd", "din", "dout", "bufpos", "datalen"} :
                WriteMode(n, val)[f] = n[f]
           /\ WriteMode(n, val).mode = val
           /\ WriteMode(n, val).state = IF "ARB" \in val THEN "arb"
                                        ELSE IF n.state = "arb" THEN "idle" ELSE n.state
BY DEF WriteMode, NcrSet, BusStates

-----------------------------------------------------------------------------
(* The disk. *)

LEMMA ImageIs ==
    ASSUME world \in Worlds, NEW t \in Targets
    PROVE  Image(t) \in Images \cup {"none"}
<1> DEFINE names == Candidates(world, t)
           found == {i \in DOMAIN names : Openable(world, names[i])}
           first == CHOOSE i \in found : \A j \in found : i <= j
<1>1. Image(t) = IF found # {} THEN names[first] ELSE IF world.partition THEN Flash ELSE "none"
    BY DEF Image, hdCreate
<1>2. CASE found # {}
  <2>1. found \subseteq 1 .. 4
      BY DEF Candidates, Legacy
  <2>2. \E i \in found : \A j \in found : i <= j
    <3>1. CASE 1 \in found
        BY <2>1, <3>1
    <3>2. CASE 1 \notin found /\ 2 \in found
        BY <2>1, <3>2
    <3>3. CASE 1 \notin found /\ 2 \notin found /\ 3 \in found
        BY <2>1, <3>3
    <3>4. CASE 1 \notin found /\ 2 \notin found /\ 3 \notin found
        BY <1>2, <2>1, <3>4
    <3> QED BY <3>1, <3>2, <3>3, <3>4
  <2> HIDE DEF names
  <2>3. first \in found
    <3> HIDE DEF found
    <3> QED BY <2>2
  <2>4. names[first] \in DOMAIN world.card
      BY <2>3 DEF Openable
  <2> QED BY <1>1, <1>2, <2>4, Given
<1>3. CASE found = {}
    BY <1>1, <1>3 DEF Images
<1> QED BY <1>2, <1>3

LEMMA NoneIsNoImage == "none" \notin Images /\ Flash \in Images
BY DEF Images, Flash

LEMMA ReadsTheMedium ==
    ASSUME media \in [Images -> BlockSet], NEW img \in Images \cup {"none"},
           NEW lba \in Nat, NEW len \in Nat, NEW o \in HdRead(img, lba, len), o.ok,
           NEW at \in Nat, at = At(lba)
    PROVE  /\ o.data \in [1 .. len -> Nat]
           /\ \A i \in 1 .. len : o.data[i] = media[img][at + i - 1]
<1> DEFINE inside == /\ Reaches(img, lba)
                     /\ \A b \in Span(at, len) : b <= Size /\ media[img][b] # Nil
           copy == [i \in 1 .. len |-> media[img][at + i - 1]]
<1>1. img # "none" /\ inside /\ o = [ok |-> TRUE, data |-> copy]
  <2>1. img # "none"
      BY DEF HdRead
  <2>2. o # [ok |-> FALSE, data |-> <<>>]
      OBVIOUS
  <2>3. o \in IF inside THEN {[ok |-> TRUE, data |-> copy]} ELSE {[ok |-> FALSE, data |-> <<>>]}
      BY <2>1, <2>2, Zenon DEF HdRead
  <2> HIDE DEF inside, copy
  <2> QED BY <2>1, <2>2, <2>3
<1>2. media[img] \in BlockSet
    BY <1>1
<1>3. ASSUME NEW i \in 1 .. len PROVE media[img][at + i - 1] \in Nat
  <2>1. at + i - 1 \in Span(at, len) /\ at + i - 1 \in Nat
      BY DEF Span
  <2>2. at + i - 1 <= Size /\ media[img][at + i - 1] # Nil
      BY <1>1, <2>1
  <2>3. at + i - 1 \in Blocks
      BY <2>1, <2>2, Given DEF Blocks
  <2> QED BY <1>2, <2>2, <2>3 DEF BlockSet
<1>4. o.data = copy
    BY <1>1
<1> QED BY <1>3, <1>4

\* Blocks written one after another, the first n of vals.
LEMMA BlocksPut ==
    ASSUME NEW blocks \in BlockSet, NEW lba \in Nat, NEW vals \in Seq(Nat)
    PROVE  /\ PutBlocks(blocks, lba, vals) \in BlockSet
           /\ \A b \in Blocks : PutBlocks(blocks, lba, vals)[b] =
                IF b - lba + 1 \in 1 .. Len(vals) THEN vals[b - lba + 1] ELSE blocks[b]
<1>1. DOMAIN blocks = Blocks /\ DOMAIN vals = 1 .. Len(vals)
    BY DEF BlockSet
<1>2. PutBlocks(blocks, lba, vals) =
        [b \in Blocks |-> IF b - lba + 1 \in 1 .. Len(vals) THEN vals[b - lba + 1] ELSE blocks[b]]
    BY <1>1 DEF PutBlocks
<1>3. ASSUME NEW b \in Blocks
      PROVE  (IF b - lba + 1 \in 1 .. Len(vals) THEN vals[b - lba + 1] ELSE blocks[b])
                \in Nat \cup {Nil}
    BY DEF BlockSet
<1> QED BY <1>2, <1>3 DEF BlockSet

\* What a write of vals from block lba may have made of the blocks was.
Written(o, was, img, lba, vals) ==
    /\ o.blocks \in BlockSet /\ o.ok \in BOOLEAN
    /\ \A b \in Blocks :
        \/ o.blocks[b] = was[b]
        \/ b \in Span(lba, Len(vals)) /\ o.blocks[b] = vals[b - lba + 1]
        \/ img = Flash /\ ~ o.ok /\ o.blocks[b] = Blank
    /\ o.ok => \A i \in 1 .. Len(vals) : lba + i - 1 \in Blocks => o.blocks[lba + i - 1] = vals[i]
    /\ o.ok /\ Len(vals) > 0 =>
            IF img = Flash THEN lba + Len(vals) <= Size ELSE 2 * lba < OffsetBlocks

LEMMA FileWritten ==
    ASSUME NEW img \in Images, img # Flash, media[img] \in BlockSet, NEW block \in Nat,
           NEW vals \in Seq(Nat), NEW o \in WriteFile(img, block, vals)
    PROVE  Written(o, media[img], img, At(block), vals)
<1>0. PICK was \in BlockSet, lba \in Nat : was = media[img] /\ lba = At(block)
    BY AtIs
<1> DEFINE put(n) == PutBlocks(was, lba, SubSeq(vals, 1, n))
<1>1. CASE o = [ok |-> FALSE, blocks |-> was]
    BY <1>0, <1>1 DEF Written
<1>2. CASE Reaches(img, block) /\ o = [ok |-> TRUE, blocks |-> PutBlocks(was, lba, vals)]
  <2>1. o.ok = TRUE /\ o.blocks = PutBlocks(was, lba, vals)
      BY <1>2
  <2>2. o.blocks \in BlockSet
      BY <2>1, BlocksPut
  <2>3. \A b \in Blocks : o.blocks[b] =
                IF b - lba + 1 \in 1 .. Len(vals) THEN vals[b - lba + 1] ELSE was[b]
      BY <2>1, BlocksPut
  <2>4. \A b \in Blocks : b \in Nat /\ (b - lba + 1 \in 1 .. Len(vals) => b \in Span(lba, Len(vals)))
      BY Given DEF Blocks, Span
  <2>5. ASSUME NEW i \in 1 .. Len(vals), lba + i - 1 \in Blocks
        PROVE  o.blocks[lba + i - 1] = vals[i]
    <3>1. (lba + i - 1) - lba + 1 = i
        OBVIOUS
    <3> QED BY <2>3, <2>5, <3>1
  <2>6. 2 * lba < OffsetBlocks
      BY <1>0, <1>2 DEF Reaches
  <2> QED BY <1>0, <2>1, <2>2, <2>3, <2>4, <2>5, <2>6 DEF Written
<1>3. CASE \E n \in 0 .. Len(vals) : o = [ok |-> FALSE, blocks |-> put(n)]
  <2>1. PICK n \in 0 .. Len(vals) : o = [ok |-> FALSE, blocks |-> put(n)]
      BY <1>3
  <2>2. /\ SubSeq(vals, 1, n) \in Seq(Nat) /\ Len(SubSeq(vals, 1, n)) = n
        /\ \A i \in 1 .. n : SubSeq(vals, 1, n)[i] = vals[i]
      OBVIOUS
  <2>3. PICK part \in Seq(Nat) : part = SubSeq(vals, 1, n)
      BY <2>2
  <2>4. o.ok = FALSE /\ o.blocks = PutBlocks(was, lba, part)
      BY <2>1, <2>3
  <2>5. o.blocks \in BlockSet
      BY <2>4, BlocksPut
  <2>6. \A b \in Blocks : o.blocks[b] =
                IF b - lba + 1 \in 1 .. n THEN part[b - lba + 1] ELSE was[b]
    <3>1. Len(part) = n
        BY <2>2, <2>3
    <3>2. \A b \in Blocks : PutBlocks(was, lba, part)[b] =
                IF b - lba + 1 \in 1 .. Len(part) THEN part[b - lba + 1] ELSE was[b]
        BY BlocksPut
    <3> QED BY <2>4, <3>1, <3>2
  <2>7. \A b \in Blocks : b - lba + 1 \in 1 .. n =>
                b \in Span(lba, Len(vals)) /\ part[b - lba + 1] = vals[b - lba + 1]
      BY <2>2, <2>3, Given DEF Blocks, Span
  <2> QED BY <1>0, <2>4, <2>5, <2>6, <2>7 DEF Written
<1>4. \/ o = [ok |-> FALSE, blocks |-> was]
      \/ Reaches(img, block) /\ o = [ok |-> TRUE, blocks |-> PutBlocks(was, lba, vals)]
      \/ \E n \in 0 .. Len(vals) : o = [ok |-> FALSE, blocks |-> put(n)]
    BY <1>0, Zenon DEF WriteFile
<1> QED BY <1>1, <1>2, <1>3, <1>4

LEMMA StartOf ==
    ASSUME NEW vals \in Seq(Nat), NEW n \in 0 .. Len(vals)
    PROVE  /\ SubSeq(vals, 1, n) \in Seq(Nat) /\ Len(SubSeq(vals, 1, n)) = n
           /\ \A i \in 1 .. n : SubSeq(vals, 1, n)[i] = vals[i]
OBVIOUS

LEMMA SectorTyped ==
    ASSUME NEW blocks \in BlockSet, NEW at \in Nat, NEW val \in Nat,
           NEW o \in WriteFlashSector(blocks, at, val)
    PROVE  o \in [ok : BOOLEAN, blocks : BlockSet]
<1>1. DOMAIN blocks = Blocks /\ [blocks EXCEPT ![At(at)] = val] \in BlockSet
    BY DEF BlockSet
<1>2. [b \in Blocks |-> IF b \in EraseUnit(at) THEN Blank ELSE blocks[b]] \in BlockSet
    BY DEF BlockSet, Blank
<1>3. PICK x \in BlockSet, y \in BlockSet :
        /\ x = [blocks EXCEPT ![At(at)] = val]
        /\ y = [b \in DOMAIN blocks |-> IF b \in EraseUnit(at) THEN Blank ELSE blocks[b]]
    BY <1>1, <1>2
<1>4. o \in {[ok |-> TRUE, blocks |-> x], [ok |-> FALSE, blocks |-> blocks],
            [ok |-> FALSE, blocks |-> y]}
    BY <1>3, Zenon DEF WriteFlashSector
<1>5. CASE o = [ok |-> TRUE, blocks |-> x]
    BY <1>5
<1>6. CASE o = [ok |-> FALSE, blocks |-> blocks]
    BY <1>6
<1>7. CASE o = [ok |-> FALSE, blocks |-> y]
    BY <1>7
<1> QED BY <1>4, <1>5, <1>6, <1>7

\* One sector after a run of them.
LEMMA SectorWritten ==
    ASSUME NEW was \in BlockSet, NEW lba \in Nat, NEW vals \in Seq(Nat),
           NEW n \in 0 .. Len(vals) - 1, NEW p, p.ok = TRUE,
           Written(p, was, Flash, lba, SubSeq(vals, 1, n)),
           NEW sector \in Nat, At(sector) = lba + n,
           NEW o \in WriteFlashSector(p.blocks, sector, vals[n + 1])
    PROVE  Written(o, was, Flash, lba, SubSeq(vals, 1, n + 1))
<1>0. n \in 0 .. Len(vals) /\ n + 1 \in 0 .. Len(vals) /\ Len(vals) \in Nat /\ n \in Nat
    OBVIOUS
<1>1. PICK part \in Seq(Nat) :
        /\ part = SubSeq(vals, 1, n + 1) /\ Len(part) = n + 1
        /\ \A i \in 1 .. n + 1 : part[i] = vals[i]
    BY <1>0, StartOf
<1>2. PICK before \in Seq(Nat) :
        /\ before = SubSeq(vals, 1, n) /\ Len(before) = n
        /\ \A i \in 1 .. n : before[i] = vals[i]
    BY <1>0, StartOf
<1>3. PICK at \in Nat, val \in Nat : /\ at = lba + n /\ at = At(sector)
                                     /\ val = vals[n + 1] /\ val = part[n + 1]
  <2>1. n + 1 \in 1 .. Len(vals) /\ n + 1 \in 1 .. n + 1 /\ lba + n \in Nat
      BY <1>0
  <2>2. vals[n + 1] \in Nat /\ part[n + 1] = vals[n + 1]
      BY <1>1, <2>1
  <2> QED BY <2>1, <2>2
<1>4. PICK blocks \in BlockSet : blocks = p.blocks
    BY DEF Written
<1>5. /\ \A b \in Blocks : \/ blocks[b] = was[b]
                           \/ b \in lba .. lba + n - 1 /\ blocks[b] = part[b - lba + 1]
      /\ \A i \in 1 .. n : lba + i - 1 \in Blocks => blocks[lba + i - 1] = part[i]
  <2>1. ASSUME NEW b \in lba .. lba + n - 1 PROVE before[b - lba + 1] = part[b - lba + 1]
    <3>1. b - lba + 1 \in 1 .. n /\ b - lba + 1 \in 1 .. n + 1
        BY <1>0
    <3> QED BY <1>1, <1>2, <3>1
  <2>2. \A i \in 1 .. n : before[i] = part[i]
      BY <1>1, <1>2
  <2>3. Span(lba, Len(before)) = lba .. lba + n - 1
      BY <1>2 DEF Span
  <2> QED BY <1>2, <1>4, <2>1, <2>2, <2>3 DEF Written
<1>6. Span(lba, Len(part)) = lba .. lba + n
    BY <1>1 DEF Span
<1>7. \A b \in Blocks : b \in Nat
    BY Given DEF Blocks
<1>8. CASE at < Size /\ o = [ok |-> TRUE, blocks |-> [blocks EXCEPT ![at] = val]]
  <2>1. at \in Blocks
      BY <1>8, Given DEF Blocks
  <2>2. /\ o.ok = TRUE /\ o.blocks \in BlockSet
        /\ \A b \in Blocks : o.blocks[b] = IF b = at THEN val ELSE blocks[b]
    <3>1. o.ok = TRUE /\ o.blocks = [blocks EXCEPT ![at] = val]
        BY <1>8
    <3> QED BY <2>1, <3>1 DEF BlockSet
  <2>3. ASSUME NEW b \in Blocks
        PROVE  \/ o.blocks[b] = was[b]
               \/ b \in lba .. lba + n /\ o.blocks[b] = part[b - lba + 1]
    <3>1. CASE b = at
      <4>1. b - lba + 1 = n + 1 /\ b \in lba .. lba + n
          BY <1>3, <3>1
      <4> QED BY <1>3, <2>2, <3>1, <4>1
    <3>2. CASE b # at
      <4>1. b \in lba .. lba + n - 1 => b \in lba .. lba + n
          BY <1>0, <1>7
      <4>2. o.blocks[b] = blocks[b]
          BY <2>2, <3>2
      <4>3. \/ blocks[b] = was[b]
            \/ b \in lba .. lba + n - 1 /\ blocks[b] = part[b - lba + 1]
          BY <1>5
      <4>4. CASE blocks[b] = was[b]
          BY <4>2, <4>4
      <4>5. CASE b \in lba .. lba + n - 1 /\ blocks[b] = part[b - lba + 1]
          BY <4>1, <4>2, <4>5
      <4> QED BY <4>3, <4>4, <4>5
    <3> QED BY <3>1, <3>2
  <2>4. ASSUME NEW i \in 1 .. n + 1, lba + i - 1 \in Blocks
        PROVE  o.blocks[lba + i - 1] = part[i]
    <3>1. CASE i = n + 1
      <4>1. lba + i - 1 = at
          BY <1>3, <3>1
      <4> QED BY <1>3, <2>1, <2>2, <3>1, <4>1
    <3>2. CASE i # n + 1
      <4>1. i \in 1 .. n /\ lba + i - 1 # at
          BY <1>3, <3>2
      <4> QED BY <1>5, <2>2, <2>4, <4>1
    <3> QED BY <3>1, <3>2
  <2>5. lba + Len(part) <= Size
      BY <1>0, <1>1, <1>3, <1>8, Given
  <2> QED BY <1>1, <1>6, <2>2, <2>3, <2>4, <2>5 DEF Written
<1>9. CASE o = [ok |-> FALSE, blocks |-> blocks]
  <2>1. o.ok = FALSE /\ o.blocks = blocks
      BY <1>9
  <2>2. \A b \in Blocks : b \in lba .. lba + n - 1 => b \in lba .. lba + n
      BY <1>7
  <2> QED BY <1>1, <1>5, <1>6, <2>1, <2>2 DEF Written
<1>10. CASE o = [ok |-> FALSE, blocks |-> [b \in DOMAIN blocks |->
                                     IF b \in EraseUnit(sector) THEN Blank ELSE blocks[b]]]
  <2>1. /\ o.ok = FALSE /\ o.blocks \in BlockSet
        /\ \A b \in Blocks : o.blocks[b] \in {Blank, blocks[b]}
    <3>1. o.ok = FALSE /\ o.blocks = [b \in Blocks |->
                                     IF b \in EraseUnit(sector) THEN Blank ELSE blocks[b]]
        BY <1>10 DEF BlockSet
    <3> QED BY <3>1 DEF BlockSet, Blank
  <2>2. \A b \in Blocks : b \in lba .. lba + n - 1 => b \in lba .. lba + n
      BY <1>7
  <2> QED BY <1>1, <1>5, <1>6, <2>1, <2>2 DEF Written
<1>11. o \in WriteFlashSector(blocks, sector, val) /\ at = At(sector)
    BY <1>3, <1>4
<1>12. CASE at >= Size
    BY <1>9, <1>11, <1>12 DEF WriteFlashSector
<1>13. CASE ~ (at >= Size)
  <2>1. at < Size
      BY <1>13, Given
  <2> QED BY <1>8, <1>9, <1>10, <1>11, <1>13, <2>1, Zenon DEF WriteFlashSector
<1> QED BY <1>12, <1>13

-----------------------------------------------------------------------------
(* Induction over the sectors of a write. *)

LEMMA SetInduction ==
  ASSUME NEW S, 0 \in S, \A n \in Nat : n \in S => n + 1 \in S
  PROVE  Nat \subseteq S
  <1> DEFINE T == Nat \ S
             R == OpToRel(<, Nat)
  <1> SUFFICES ASSUME T # {} PROVE FALSE
    OBVIOUS
  <1>1. IsWellFoundedOn(R, Nat)
    BY NatLessThanWellFounded
  <1>2. \A x, y \in T : <<y, x>> \in R <=> y < x
    BY DEF OpToRel
  <1> HIDE DEF R
  <1>3. PICK n \in T : \A m \in T : ~ (<<m, n>> \in R)
    BY <1>1, WFMin
  <1>4. \A m \in T : ~(m < n)
    BY <1>2, <1>3
  <1>5. n # 0 /\ n - 1 \in Nat /\ n - 1 \notin T
    BY <1>4
  <1> QED BY <1>5, (n - 1) + 1 = n

Steps(f, N, b, step) == f[0] = b /\ \A n \in 1 .. N : f[n] = step[<<n, f[n - 1]>>]

LEMMA StepsExist ==
  ASSUME NEW N \in Nat, NEW S, NEW b \in S, NEW step \in [(1 .. N) \X S -> S]
  PROVE  \E f \in [0 .. N -> S] : Steps(f, N, b, step)
  <1> DEFINE Fine == {n \in Nat : n <= N =>
                        \E f \in [0 .. n -> S] :
                            f[0] = b /\ \A i \in 1 .. n : f[i] = step[<<i, f[i - 1]>>]}
  <1>1. 0 \in Fine
    <2> DEFINE f == [i \in 0 .. 0 |-> b]
    <2>1. f \in [0 .. 0 -> S] /\ f[0] = b /\ \A i \in 1 .. 0 : FALSE
      OBVIOUS
    <2> QED BY <2>1
  <1>2. ASSUME NEW n \in Nat, n \in Fine PROVE n + 1 \in Fine
    <2> SUFFICES ASSUME n + 1 <= N
                 PROVE  \E f \in [0 .. n + 1 -> S] :
                          f[0] = b /\ \A i \in 1 .. n + 1 : f[i] = step[<<i, f[i - 1]>>]
      OBVIOUS
    <2>1. PICK g \in [0 .. n -> S] : g[0] = b /\ \A i \in 1 .. n : g[i] = step[<<i, g[i - 1]>>]
      BY <1>2
    <2>2. step[<<n + 1, g[n]>>] \in S
      OBVIOUS
    <2> DEFINE f == [i \in 0 .. n + 1 |-> IF i = n + 1 THEN step[<<n + 1, g[n]>>] ELSE g[i]]
    <2>3. f \in [0 .. n + 1 -> S] /\ f[0] = b
      BY <2>1, <2>2
    <2>4. ASSUME NEW i \in 1 .. n + 1 PROVE f[i] = step[<<i, f[i - 1]>>]
      <3>1. i - 1 \in 0 .. n /\ f[i - 1] = g[i - 1]
        OBVIOUS
      <3>2. CASE i = n + 1
        <4>1. f[n + 1] = step[<<n + 1, g[n]>>]
          OBVIOUS
        <4>2. f[i - 1] = g[n]
          BY <3>1, <3>2
        <4> HIDE DEF f
        <4> QED BY <3>2, <4>1, <4>2
      <3>3. CASE i # n + 1
        BY <2>1, <3>1, <3>3
      <3> QED BY <3>2, <3>3
    <2> QED BY <2>3, <2>4
  <1> HIDE DEF Fine
  <1>3. N \in Fine
    BY <1>1, <1>2, SetInduction
  <1> QED BY <1>3 DEF Fine, Steps


\* The sectors one after another, up to the first failure.
LEMMA FlashWritten ==
    ASSUME media[Flash] \in BlockSet, NEW block \in Nat, NEW vals \in Seq(Nat),
           NEW o \in WriteFlash(Flash, block, vals)
    PROVE  Written(o, media[Flash], Flash, At(block), vals)
<1>0. PICK was \in BlockSet, lba \in Nat : was = media[Flash] /\ lba = At(block)
    BY AtIs
<1> DEFINE L == Len(vals)
           b == {[ok |-> TRUE, blocks |-> was]}
           Then(s, n) == UNION {IF q.ok THEN WriteFlashSector(q.blocks, block + n - 1, vals[n])
                                ELSE {q} : q \in s}
           S == SUBSET [ok : BOOLEAN, blocks : BlockSet]
           R(h) == [n \in 0 .. L |-> IF n = 0 THEN b ELSE Then(h[n - 1], n)]
           step == [p \in (1 .. L) \X S |-> Then(p[2], p[1])]
           after[n \in 0 .. L] == IF n = 0 THEN b ELSE Then(after[n - 1], n)
<1>1. L \in Nat
    OBVIOUS
<1>2. b \in S
    BY <1>0
<1>3. ASSUME NEW s \in S, NEW n \in 1 .. L PROVE Then(s, n) \in S
  <2> SUFFICES ASSUME NEW q \in s, NEW r \in IF q.ok THEN WriteFlashSector(q.blocks, block + n - 1, vals[n])
                                              ELSE {q}
               PROVE  r \in [ok : BOOLEAN, blocks : BlockSet]
      OBVIOUS
  <2>1. q \in [ok : BOOLEAN, blocks : BlockSet] /\ block + n - 1 \in Nat /\ vals[n] \in Nat
      OBVIOUS
  <2>2. q.blocks \in BlockSet
      BY <2>1
  <2>3. CASE r \in WriteFlashSector(q.blocks, block + n - 1, vals[n])
      BY <2>1, <2>2, <2>3, SectorTyped
  <2> QED BY <2>1, <2>3
<1>4. step \in [(1 .. L) \X S -> S]
    BY <1>3
<1>5. WriteFlash(Flash, block, vals) = after[L]
    BY <1>0 DEF WriteFlash
<1>6. after = CHOOSE h : h = R(h)
    OBVIOUS
<1>7. ASSUME NEW n \in 1 .. L, NEW s \in S
      PROVE  step[<<n, s>>] = Then(s, n)
    OBVIOUS
<1> HIDE DEF L, b, after, step, Then, S
<1>8. PICK f \in [0 .. L -> S] : Steps(f, L, b, step)
    BY <1>1, <1>2, <1>4, StepsExist
<1>9. f = R(f)
  <2>1. \A n \in 0 .. L : f[n] = IF n = 0 THEN b ELSE Then(f[n - 1], n)
    <3> SUFFICES ASSUME NEW n \in 0 .. L
                 PROVE  f[n] = IF n = 0 THEN b ELSE Then(f[n - 1], n)
        OBVIOUS
    <3>1. CASE n = 0
        BY <1>8, <3>1 DEF Steps
    <3>2. CASE n # 0
      <4>1. n \in 1 .. L /\ f[n - 1] \in S
          BY <1>1, <1>8, <3>2
      <4> QED BY <1>7, <1>8, <3>2, <4>1 DEF Steps
    <3> QED BY <3>1, <3>2
  <2> QED BY <2>1
<1>10. after = R(after)
    BY <1>6, <1>9
<1> DEFINE Right(n) == \A q \in after[n] : Written(q, was, Flash, lba, SubSeq(vals, 1, n))
           Done == {n \in Nat : n <= L => Right(n)}
<1>11. Right(0)
  <2>1. after[0] = b
      BY <1>1, <1>10
  <2>2. SubSeq(vals, 1, 0) \in Seq(Nat) /\ Len(SubSeq(vals, 1, 0)) = 0
      BY <1>1, StartOf DEF L
  <2>3. ASSUME NEW q, q = [ok |-> TRUE, blocks |-> was]
        PROVE  Written(q, was, Flash, lba, SubSeq(vals, 1, 0))
      BY <2>2, <2>3 DEF Written
  <2> QED BY <2>1, <2>3 DEF b
<1>12. ASSUME NEW n \in Nat, n + 1 <= L, Right(n)
       PROVE  Right(n + 1)
  <2> SUFFICES ASSUME NEW r \in after[n + 1]
               PROVE  Written(r, was, Flash, lba, SubSeq(vals, 1, n + 1))
      OBVIOUS
  <2>1. n + 1 \in 0 .. L /\ n + 1 # 0 /\ (n + 1) - 1 = n /\ n \in 0 .. Len(vals) - 1
        /\ n \in 0 .. Len(vals) /\ n + 1 \in 0 .. Len(vals)
      BY <1>1, <1>12 DEF L
  <2>2. after[n + 1] = Then(after[n], n + 1)
      BY <1>10, <2>1
  <2>3. PICK p \in after[n] : r \in IF p.ok THEN WriteFlashSector(p.blocks, block + n, vals[n + 1])
                                    ELSE {p}
    <3>1. block + (n + 1) - 1 = block + n
        OBVIOUS
    <3> QED BY <2>2, <3>1 DEF Then
  <2>4. Written(p, was, Flash, lba, SubSeq(vals, 1, n))
      BY <1>12, <2>3
  <2>5. CASE p.ok = TRUE
    <3>1. lba + n < OffsetBlocks
      <4>1. CASE n = 0
          BY <1>0, <4>1, AtIs
      <4>2. CASE n # 0
        <5>1. Len(SubSeq(vals, 1, n)) = n
            BY <2>1, StartOf
        <5> QED BY <2>4, <2>5, <4>2, <5>1, Given DEF Written
      <4> QED BY <4>1, <4>2
    <3>2. At(block + n) = lba + n /\ block + n \in Nat
        BY <1>0, <3>1, AtAfter
    <3> QED BY <2>1, <2>3, <2>4, <2>5, <3>2, SectorWritten
  <2>6. CASE p.ok = FALSE
    <3>1. PICK part \in Seq(Nat) : /\ part = SubSeq(vals, 1, n + 1) /\ Len(part) = n + 1
                                   /\ \A i \in 1 .. n + 1 : part[i] = vals[i]
        BY <2>1, StartOf
    <3>2. PICK before \in Seq(Nat) : /\ before = SubSeq(vals, 1, n) /\ Len(before) = n
                                     /\ \A i \in 1 .. n : before[i] = vals[i]
        BY <2>1, StartOf
    <3>3. \A at \in Span(lba, n) : at \in Span(lba, n + 1) /\ before[at - lba + 1] = part[at - lba + 1]
        BY <3>1, <3>2 DEF Span
    <3>4. r = p
        BY <2>3, <2>6
    <3> QED BY <2>4, <2>6, <3>1, <3>2, <3>3, <3>4 DEF Written
  <2> QED BY <2>4, <2>5, <2>6 DEF Written
<1> HIDE DEF Right
<1>13. 0 \in Done /\ \A n \in Nat : n \in Done => n + 1 \in Done
  <2>1. \A n \in Nat : n + 1 <= L => n <= L
      BY <1>1
  <2> QED BY <1>11, <1>12, <2>1
<1>14. L \in Done
  <2> HIDE DEF Done
  <2> QED BY <1>1, <1>13, SetInduction
<1>15. SubSeq(vals, 1, L) = vals
    BY DEF L
<1>16. Right(L)
    BY <1>1, <1>14
<1>17. Written(o, was, Flash, lba, SubSeq(vals, 1, L))
    BY <1>5, <1>16 DEF Right
<1> QED BY <1>0, <1>15, <1>17

-----------------------------------------------------------------------------
(* The commands. *)

\* An outcome whose status is s, that leaves the medium and the data bank.
Ended(o, bk, s, length) ==
    /\ o.bank \in BankSet /\ o.bank.data = bk.data /\ o.bank.cmd[1] = s
    /\ o.blocks = <<>> /\ o.calls = 1 /\ o.datalen = length

WithStatus(bk, s) == [bk EXCEPT !.cmd[1] = s, !.msg[1] = 0]

LEMMA StatusPut ==
    ASSUME NEW bk \in BankSet, NEW s \in Nat
    PROVE  /\ WithStatus(bk, s) \in BankSet /\ WithStatus(bk, s).data = bk.data
           /\ WithStatus(bk, s).cmd[1] = s
<1>1. PICK c \in [1 .. 4 -> Nat], d \in [1 .. BufBlocks -> Nat], m \in [1 .. 1 -> Nat] :
        bk = [cmd |-> c, data |-> d, msg |-> m]
    BY DEF BankSet
<1>2. bk.cmd = c /\ bk.msg = m /\ bk.data = d
    BY <1>1
<1>3. PICK c0 \in [1 .. 4 -> Nat] : c0 = [c EXCEPT ![1] = s] /\ c0[1] = s
  <2>1. [c EXCEPT ![1] = s] \in [1 .. 4 -> Nat] /\ [c EXCEPT ![1] = s][1] = s
      OBVIOUS
  <2> QED BY <2>1
<1>4. PICK m0 \in [1 .. 1 -> Nat] : m0 = [m EXCEPT ![1] = 0]
    OBVIOUS
<1>5. PICK b1 : b1 = [bk EXCEPT !.cmd[1] = s]
    OBVIOUS
<1>6. b1 = [bk EXCEPT !.cmd = c0]
    BY <1>2, <1>3, <1>5
<1>7. b1 = [cmd |-> c0, data |-> d, msg |-> m]
    BY <1>1, <1>6
<1>8. WithStatus(bk, s) = [b1 EXCEPT !.msg[1] = 0]
    BY <1>5 DEF WithStatus
<1>9. b1.msg = m
    BY <1>7
<1>10. WithStatus(bk, s) = [b1 EXCEPT !.msg = m0]
    BY <1>4, <1>8, <1>9
<1>11. WithStatus(bk, s) = [cmd |-> c0, data |-> d, msg |-> m0]
    BY <1>7, <1>10
<1>12. WithStatus(bk, s).data = d /\ WithStatus(bk, s).cmd = c0
    BY <1>11
<1> QED BY <1>2, <1>3, <1>11, <1>12 DEF BankSet

LEMMA AnswerIs ==
    ASSUME NEW bk \in BankSet, NEW length
    PROVE  /\ Ended(Answer(bk, length), bk, Good, length)
           /\ Ended(Refuse(bk), bk, Check, 0)
<1>1. PICK b0 \in BankSet :
        b0 = WithStatus(bk, Good) /\ b0.data = bk.data /\ b0.cmd[1] = Good
    BY StatusPut DEF Good
<1>2. PICK b2 \in BankSet :
        b2 = WithStatus(bk, Check) /\ b2.data = bk.data /\ b2.cmd[1] = Check
    BY StatusPut DEF Check
<1>3. Answer(bk, length) = [bank |-> b0, datalen |-> length, blocks |-> <<>>, calls |-> 1]
    BY <1>1, Zenon DEF Answer, WithStatus
<1>4. Refuse(bk) = [bank |-> b2, datalen |-> 0, blocks |-> <<>>, calls |-> 1]
    BY <1>2, Zenon DEF Refuse, WithStatus
<1> QED BY <1>1, <1>2, <1>3, <1>4 DEF Ended

LEMMA LoadIs ==
    ASSUME NEW bk \in BankSet, NEW data \in Seq(Nat), NEW len, len = Len(data), len <= BufBlocks
    PROVE  /\ Load(bk, data) \in BankSet /\ Load(bk, data).cmd = bk.cmd
           /\ \A i \in 1 .. len : Load(bk, data).data[i] = data[i]
<1>1. PICK c \in [1 .. 4 -> Nat], d \in [1 .. BufBlocks -> Nat], m \in [1 .. 1 -> Nat] :
        bk = [cmd |-> c, data |-> d, msg |-> m]
    BY DEF BankSet
<1>2. /\ DOMAIN d = 1 .. BufBlocks /\ DOMAIN data = 1 .. len /\ 1 .. len \subseteq 1 .. BufBlocks
      /\ \A i \in 1 .. len : data[i] \in Nat
  <2>1. DOMAIN data = 1 .. len /\ \A i \in 1 .. len : data[i] \in Nat
      OBVIOUS
  <2>2. len \in Nat /\ 1 .. len \subseteq 1 .. BufBlocks
      BY Given
  <2> QED BY <2>1, <2>2
<1>3. PICK e \in [1 .. BufBlocks -> Nat] :
        e = [i \in DOMAIN d |-> IF i \in DOMAIN data THEN data[i] ELSE d[i]]
    BY <1>2
<1>4. Load(bk, data) = [cmd |-> c, data |-> e, msg |-> m]
  <2>1. bk.data = d
      BY <1>1
  <2>2. Load(bk, data) = [bk EXCEPT !.data = e]
      BY <1>3, <2>1 DEF Load
  <2> QED BY <1>1, <2>2
<1>5. \A i \in 1 .. len : e[i] = data[i]
    BY <1>2, <1>3
<1>6. [cmd |-> c, data |-> e, msg |-> m] \in BankSet
    BY DEF BankSet
<1>7. Load(bk, data).data = e /\ Load(bk, data).cmd = bk.cmd
    BY <1>1, <1>4
<1> QED BY <1>4, <1>5, <1>6, <1>7

LEMMA ReadEnds ==
    ASSUME media \in [Images -> BlockSet], NEW img \in Images \cup {"none"}, NEW bk \in BankSet,
           NEW lba \in Nat, NEW len \in Nat, NEW o \in ReadCommand(bk, img, lba, len),
           NEW at \in Nat, at = At(lba)
    PROVE  /\ o.bank \in BankSet /\ o.blocks = <<>> /\ o.calls = 1 /\ o.datalen \in Nat
           /\ o.bank.cmd[1] = Good =>
                /\ len <= BufBlocks
                /\ \A i \in 1 .. len : o.bank.data[i] = media[img][at + i - 1]
<1>0. Good # Check
    BY DEF Good, Check
<1>1. CASE o = Refuse(bk)
    BY <1>0, <1>1, AnswerIs DEF Ended
<1>2. CASE len <= BufBlocks /\ \E r \in HdRead(img, lba, len) :
                r.ok /\ o = Answer(Load(bk, r.data), len)
  <2>1. PICK r \in HdRead(img, lba, len) : r.ok /\ o = Answer(Load(bk, r.data), len)
      BY <1>2
  <2>2. /\ r.data \in [1 .. len -> Nat]
        /\ \A i \in 1 .. len : r.data[i] = media[img][at + i - 1]
      BY <2>1, ReadsTheMedium
  <2>3. PICK b1 \in BankSet : b1 = Load(bk, r.data) /\ \A i \in 1 .. len : b1.data[i] = r.data[i]
    <3>1. r.data \in Seq(Nat) /\ Len(r.data) = len
        BY <2>2, TupleLen
    <3> QED BY <1>2, <3>1, LoadIs
  <2>4. Ended(o, b1, Good, len)
      BY <2>1, <2>3, AnswerIs
  <2> QED BY <1>2, <2>2, <2>3, <2>4 DEF Ended
<1>3. \/ o = Refuse(bk)
      \/ ~ (len > BufBlocks) /\ \E r \in HdRead(img, lba, len) :
                r.ok /\ o = Answer(Load(bk, r.data), len)
    BY Zenon DEF ReadCommand
<1> QED BY <1>1, <1>2, <1>3, Given

\* A write that ends: refused before it touched the medium, or all of it there
\* if and only if the status is GOOD.
WriteEffect(o, bk, img, lba, len) ==
    \/ o.blocks = <<>> /\ o.bank.cmd[1] = Check
    \/ /\ img \in Images /\ len <= BufBlocks
       /\ \E ok \in BOOLEAN :
            /\ ok = TRUE <=> o.bank.cmd[1] = Good
            /\ Written([ok |-> ok, blocks |-> o.blocks], media[img], img,
                       At(lba), SubSeq(bk.data, 1, len))

LEMMA WriteEnds ==
    ASSUME media \in [Images -> BlockSet], NEW img \in Images \cup {"none"}, NEW bk \in BankSet,
           NEW lba \in Nat, NEW len \in Nat, NEW o \in WriteCommand(bk, img, lba, len)
    PROVE  /\ o.bank \in BankSet /\ o.calls = 1 /\ o.datalen \in Nat
           /\ o.bank.cmd[1] \in {Good, Check}
           /\ o.blocks = <<>> \/ (img \in Images /\ o.blocks \in BlockSet)
           /\ WriteEffect(o, bk, img, lba, len)
<1>0. Good # Check
    BY DEF Good, Check
<1>1. CASE o = Refuse(bk)
    BY <1>1, AnswerIs DEF Ended, WriteEffect
<1>2. CASE /\ ~ (len > BufBlocks) /\ img # "none"
           /\ \E r \in HdWrite(img, lba, SubSeq(bk.data, 1, len)) :
                o = [(IF r.ok THEN Answer(bk, 0) ELSE Refuse(bk)) EXCEPT !.blocks = r.blocks]
  <2>0. img \in Images /\ len <= BufBlocks /\ len \in 0 .. BufBlocks
      BY <1>2, Given
  <2>1. PICK r \in HdWrite(img, lba, SubSeq(bk.data, 1, len)) :
                o = [(IF r.ok THEN Answer(bk, 0) ELSE Refuse(bk)) EXCEPT !.blocks = r.blocks]
      BY <1>2
  <2>2. PICK vals \in Seq(Nat) : vals = SubSeq(bk.data, 1, len)
    <3>1. bk.data \in Seq(Nat) /\ Len(bk.data) = BufBlocks
        BY BankRoom, TupleLen, Given DEF BankSet
    <3> QED BY <2>0, <3>1, StartOf
  <2>3. Written(r, media[img], img, At(lba), vals)
    <3>1. media[img] \in BlockSet
        BY <2>0
    <3>2. CASE img = Flash
        BY <2>1, <2>2, <3>1, <3>2, FlashWritten DEF HdWrite
    <3>3. CASE img # Flash
        BY <2>0, <2>1, <2>2, <3>1, <3>3, FileWritten DEF HdWrite
    <3> QED BY <3>2, <3>3
  <2>4. r.ok \in BOOLEAN /\ r.blocks \in BlockSet
      BY <2>3 DEF Written
  <2>5. CASE r.ok = TRUE
    <3>1. PICK a : a = Answer(bk, 0) /\ Ended(a, bk, Good, 0)
        BY AnswerIs
    <3>2. o = [a EXCEPT !.blocks = r.blocks]
        BY <2>1, <2>5, <3>1
    <3>3. DOMAIN a = {"bank", "datalen", "blocks", "calls"}
        BY <3>1 DEF Answer
    <3>4. o.bank = a.bank /\ o.calls = a.calls /\ o.datalen = a.datalen /\ o.blocks = r.blocks
        BY <3>2, <3>3
    <3>5. Written([ok |-> TRUE, blocks |-> r.blocks], media[img], img, At(lba), vals)
        BY <2>3, <2>5 DEF Written
    <3>6. TRUE = TRUE <=> o.bank.cmd[1] = Good
        BY <1>0, <3>1, <3>4 DEF Ended
    <3>7. \E ok \in BOOLEAN :
            /\ ok = TRUE <=> o.bank.cmd[1] = Good
            /\ Written([ok |-> ok, blocks |-> o.blocks], media[img], img, At(lba), vals)
        BY <3>4, <3>5, <3>6
    <3>8. WriteEffect(o, bk, img, lba, len)
        BY <2>0, <2>2, <3>7 DEF WriteEffect
    <3> QED BY <2>0, <2>4, <3>1, <3>4, <3>8 DEF Ended
  <2>6. CASE r.ok = FALSE
    <3>1. PICK a : a = Refuse(bk) /\ Ended(a, bk, Check, 0)
        BY AnswerIs
    <3>2. o = [a EXCEPT !.blocks = r.blocks]
        BY <2>1, <2>6, <3>1
    <3>3. DOMAIN a = {"bank", "datalen", "blocks", "calls"}
        BY <3>1 DEF Refuse
    <3>4. o.bank = a.bank /\ o.calls = a.calls /\ o.datalen = a.datalen /\ o.blocks = r.blocks
        BY <3>2, <3>3
    <3>5. Written([ok |-> FALSE, blocks |-> r.blocks], media[img], img, At(lba), vals)
        BY <2>3, <2>6 DEF Written
    <3>6. FALSE = TRUE <=> o.bank.cmd[1] = Good
        BY <1>0, <3>1, <3>4 DEF Ended
    <3>7. \E ok \in BOOLEAN :
            /\ ok = TRUE <=> o.bank.cmd[1] = Good
            /\ Written([ok |-> ok, blocks |-> o.blocks], media[img], img, At(lba), vals)
        BY <3>4, <3>5, <3>6
    <3>8. WriteEffect(o, bk, img, lba, len)
        BY <2>0, <2>2, <3>7 DEF WriteEffect
    <3> QED BY <2>0, <2>4, <3>1, <3>4, <3>8 DEF Ended
  <2> QED BY <2>4, <2>5, <2>6
<1>3. \/ o = Refuse(bk)
      \/ /\ ~ (len > BufBlocks) /\ img # "none"
         /\ \E r \in HdWrite(img, lba, SubSeq(bk.data, 1, len)) :
                o = [(IF r.ok THEN Answer(bk, 0) ELSE Refuse(bk)) EXCEPT !.blocks = r.blocks]
    BY Zenon DEF WriteCommand
<1> QED BY <1>1, <1>2, <1>3

\* A command that leaves the medium: what it does to the data bank aside.
Harmless(o) ==
    o.bank \in BankSet /\ o.blocks = <<>> /\ o.calls = 1 /\ o.datalen \in Nat

LEMMA CommandIs ==
    ASSUME NEW bk, NEW img, NEW op, NEW len, NEW lba, NEW o \in hdScsiCmd(bk, img, op, len, lba)
    PROVE  /\ IsRead(op) => o \in ReadCommand(bk, img, lba, len)
           /\ IsWrite(op) => o \in WriteCommand(bk, img, lba, len)
           /\ \/ IsRead(op) \/ IsWrite(op) \/ o \in InquiryCommand(bk)
              \/ o = Answer(Load(bk, <<IF img = "none" THEN 0 ELSE Size>>), 1)
              \/ o = Answer(bk, 0)
<1>1. ~ (IsRead(op) /\ IsWrite(op))
    BY DEF IsRead, IsWrite, Read6, Read10, Write6, Write10
<1>2. IsRead(op) => op # Inquiry /\ op # Capacity
    BY DEF IsRead, Read6, Read10, Inquiry, Capacity
<1>3. IsWrite(op) => op # Inquiry /\ op # Capacity
    BY DEF IsWrite, Write6, Write10, Inquiry, Capacity
<1>4. Inquiry # Capacity
    BY DEF Inquiry, Capacity
<1>5. CASE IsRead(op)
    BY <1>1, <1>2, <1>5 DEF hdScsiCmd
<1>6. CASE IsWrite(op)
    BY <1>1, <1>3, <1>6 DEF hdScsiCmd
<1>7. CASE ~ IsRead(op) /\ ~ IsWrite(op) /\ op = Inquiry
    BY <1>4, <1>7 DEF hdScsiCmd
<1>8. CASE ~ IsRead(op) /\ ~ IsWrite(op) /\ op = Capacity
    BY <1>4, <1>8 DEF hdScsiCmd
<1>9. CASE ~ IsRead(op) /\ ~ IsWrite(op) /\ op # Inquiry /\ op # Capacity
    BY <1>9 DEF hdScsiCmd
<1> QED BY <1>5, <1>6, <1>7, <1>8, <1>9

LEMMA OthersAreHarmless ==
    ASSUME NEW bk \in BankSet, NEW img, NEW op, NEW len, NEW lba,
           ~ IsRead(op), ~ IsWrite(op), NEW o \in hdScsiCmd(bk, img, op, len, lba)
    PROVE  Harmless(o)
<1>1. ASSUME NEW x \in Nat PROVE Load(bk, <<x>>) \in BankSet
  <2>1. <<x>> \in Seq(Nat) /\ Len(<<x>>) = 1 /\ 1 <= BufBlocks
      BY Given
  <2> QED BY <2>1, LoadIs
<1>2. CASE o \in InquiryCommand(bk)
  <2>1. PICK b1 \in BankSet : b1 = Load(bk, <<Inquiry>>)
      BY <1>1 DEF Inquiry
  <2>2. o = [bank |-> b1, datalen |-> 1, blocks |-> <<>>, calls |-> 1]
      BY <1>2, <2>1 DEF InquiryCommand
  <2> QED BY <2>2 DEF Harmless
<1>3. CASE o = Answer(Load(bk, <<IF img = "none" THEN 0 ELSE Size>>), 1)
  <2>0. PICK x \in Nat : x = IF img = "none" THEN 0 ELSE Size
      BY Given
  <2>1. PICK b1 \in BankSet : b1 = Load(bk, <<x>>)
      BY <1>1
  <2>2. o = Answer(b1, 1)
      BY <1>3, <2>0, <2>1
  <2>3. Ended(o, b1, Good, 1)
      BY <2>2, AnswerIs
  <2> QED BY <2>3 DEF Harmless, Ended
<1>4. CASE o = Answer(bk, 0)
    BY <1>4, AnswerIs DEF Harmless, Ended
<1> QED BY <1>2, <1>3, <1>4, CommandIs

\* What the controller hands to the disk, and what may come back.
LEMMA ParseEnds ==
    ASSUME world \in Worlds, media \in [Images -> BlockSet], ncr \in NcrSet, bank \in BankSet,
           NEW o \in parseScsiCmd(ncr, bank)
    PROVE  /\ o.bank \in BankSet /\ o.calls \in Nat /\ o.datalen \in Nat
           /\ \/ o.blocks = <<>>
              \/ Image(ncr.selected) \in Images /\ o.blocks \in BlockSet
<1>1. /\ bank.cmd[1] \in Nat /\ bank.cmd[2] \in Nat /\ bank.cmd[3] \in Nat
      /\ ncr.selected \in Targets /\ ncr.datalen \in Nat
    BY DEF BankSet, NcrSet
<1>2. PICK op \in Nat, at \in Nat, ln \in Nat, im \in Images \cup {"none"} :
        /\ op = bank.cmd[1] /\ at = bank.cmd[2] /\ im = Image(ncr.selected)
        /\ ln = DecodedLength(bank.cmd[1], bank.cmd[3])
    BY <1>1, ImageIs, Given DEF DecodedLength
<1>3. CASE o = Untouched(ncr, bank)
    BY <1>1, <1>3 DEF Untouched
<1>4. CASE o \in hdScsiCmd(bank, im, op, ln, at)
  <2>1. CASE IsRead(op)
    <3>1. o \in ReadCommand(bank, im, at, ln)
      <4>1. IsRead(op) => o \in ReadCommand(bank, im, at, ln)
          BY <1>4, CommandIs
      <4>2. IsWrite(op) => o \in WriteCommand(bank, im, at, ln)
          BY <1>4, CommandIs
      <4> QED BY <2>1, <4>1, <4>2
    <3>2. o.bank \in BankSet /\ o.blocks = <<>> /\ o.calls = 1 /\ o.datalen \in Nat
      <4>1. PICK x \in Nat : x = At(at)
          BY AtIs
      <4>2. PICK bk \in BankSet : bk = bank
          BY DEF BankSet
      <4>3. o \in ReadCommand(bk, im, at, ln)
          BY <3>1, <4>2
      <4> QED BY <4>1, <4>3, ReadEnds
    <3> QED BY <3>2
  <2>2. CASE IsWrite(op) /\ ~ IsRead(op)
    <3>1. o \in WriteCommand(bank, im, at, ln)
      <4>1. IsRead(op) => o \in ReadCommand(bank, im, at, ln)
          BY <1>4, CommandIs
      <4>2. IsWrite(op) => o \in WriteCommand(bank, im, at, ln)
          BY <1>4, CommandIs
      <4> QED BY <2>2, <4>1, <4>2
    <3>2. /\ o.bank \in BankSet /\ o.calls = 1 /\ o.datalen \in Nat
          /\ o.blocks = <<>> \/ (im \in Images /\ o.blocks \in BlockSet)
        BY <3>1, WriteEnds
    <3> QED BY <1>2, <3>2
  <2>3. CASE ~ IsRead(op) /\ ~ IsWrite(op)
      BY <1>4, <2>3, OthersAreHarmless DEF Harmless
  <2> QED BY <2>1, <2>2, <2>3
<1> QED BY <1>2, <1>3, <1>4, Zenon DEF parseScsiCmd

\* The command of a request, when the fields of the bank are its own.
LEMMA RequestRuns ==
    ASSUME ncr \in NcrSet, bank \in BankSet, req \in Requests,
           Attached(ncr.selected), \A i \in 1 .. 3 : bank.cmd[i] = Field(i),
           DataPhase # "status"
    PROVE  parseScsiCmd(ncr, bank) =
                hdScsiCmd(bank, Image(ncr.selected), req.op, Asked, req.lba)
<1>1. bank.cmd[1] = req.op /\ bank.cmd[2] = req.lba /\ bank.cmd[3] = req.len
    BY DEF Field
<1>2. req.op \in 0 .. 255 /\ req.len \in Nat
    BY GivenRequests
<1>3. req.op \in {Read6, Write6, Inquiry, Capacity, Read10, Write10, ModeSense}
    BY DEF DataPhase, IsRead, IsWrite
<1>4. Group(req.op) \in {0, 1, 2}
    BY <1>3 DEF Group, Read6, Write6, Inquiry, Capacity, Read10, Write10, ModeSense
<1>5. DecodedLength(req.op, req.len) = Asked
  <2>1. Group(req.op) = 0 <=> req.op < 32
      BY <1>2 DEF Group
  <2> QED BY <2>1 DEF DecodedLength, Asked, AskedBlocks
<1> QED BY <1>1, <1>4, <1>5, Zenon DEF parseScsiCmd

\* What a write of register 3 does: a new phase starts at its bank's first
\* unit, after the command it has ended.
LEMMA PhaseWritten ==
    ASSUME world \in Worlds, media \in [Images -> BlockSet], ncr \in NcrSet, bank \in BankSet,
           ncr.bufpos <= Room(ncr.buf), calls \in Nat,
           NEW phase \in Phases, WriteTargetCommand(phase)
    PROVE  /\ media' \in [Images -> BlockSet] /\ ncr' \in NcrSet /\ bank' \in BankSet
           /\ ncr'.bufpos <= Room(ncr'.buf) /\ calls' \in Nat
           /\ \A f \in {"state", "selected", "mode", "inicmd", "dout"} : ncr'[f] = ncr[f]
           /\ ncr'.tcr = phase
           /\ phase = ncr.tcr => UNCHANGED <<ncr, bank, media, calls>>
           /\ phase # ncr.tcr => /\ ncr'.bufpos = 0 /\ ncr'.buf = Bank(phase)
                                 /\ ncr'.din = bank'[Bank(phase)][1]
           /\ phase # ncr.tcr /\ ~ Runs(ncr, phase) => UNCHANGED <<bank, media, calls>>
           /\ phase # ncr.tcr /\ Runs(ncr, phase) =>
                \E o \in parseScsiCmd(ncr, bank) :
                    /\ bank' = o.bank /\ calls' = calls + o.calls
                    /\ media' = IF o.blocks = <<>> THEN media
                                ELSE [media EXCEPT ![Image(ncr.selected)] = o.blocks]
<1>1. CASE phase = ncr.tcr
  <2>1. UNCHANGED <<ncr, bank, media, calls>>
      BY <1>1 DEF WriteTargetCommand
  <2> QED BY <1>1, <2>1
<1>2. CASE phase # ncr.tcr
  <2>1. PICK o \in PhaseOutcomes(phase) :
            /\ bank' = o.bank
            /\ ncr' = [ncr EXCEPT !.tcr = phase, !.bufpos = 0, !.buf = Bank(phase),
                                  !.datalen = IF Bank(phase) = "data" THEN o.datalen ELSE 1,
                                  !.din = o.bank[Bank(phase)][1]]
            /\ media' = IF o.blocks = <<>> THEN media
                        ELSE [media EXCEPT ![Image(ncr.selected)] = o.blocks]
            /\ calls' = calls + o.calls
      BY <1>2 DEF WriteTargetCommand
  <2>2. /\ o.bank \in BankSet /\ o.calls \in Nat /\ o.datalen \in Nat
        /\ o.blocks = <<>> \/ (Image(ncr.selected) \in Images /\ o.blocks \in BlockSet)
        /\ ~ Runs(ncr, phase) => o.bank = bank /\ o.calls = 0 /\ o.blocks = <<>>
    <3>1. CASE Runs(ncr, phase)
        BY <3>1, ParseEnds DEF PhaseOutcomes
    <3>2. CASE ~ Runs(ncr, phase)
      <4>1. o = [bank |-> bank, datalen |-> ncr.datalen, blocks |-> <<>>, calls |-> 0]
          BY <3>2 DEF PhaseOutcomes, Untouched
      <4>2. ncr.datalen \in Nat
          BY DEF NcrSet
      <4> QED BY <4>1, <4>2
    <3> QED BY <3>1, <3>2
  <2>3. Bank(phase) \in BankNames
      BY DEF Phases, Bank, BankNames
  <2>4. PICK d \in Nat, x \in Nat, b \in BankNames :
            /\ d = IF Bank(phase) = "data" THEN o.datalen ELSE 1
            /\ x = o.bank[Bank(phase)][1] /\ b = Bank(phase)
    <3>1. o.bank[Bank(phase)][1] \in Nat
        BY <2>2, <2>3, BankRoom
    <3> QED BY <2>2, <2>3, <3>1
  <2>5. ncr' = [ncr EXCEPT !.tcr = phase, !.bufpos = 0, !.buf = b, !.datalen = d, !.din = x]
      BY <2>1, <2>4
  <2>6. /\ ncr' \in NcrSet /\ ncr'.tcr = phase /\ ncr'.bufpos = 0 /\ ncr'.buf = b /\ ncr'.din = x
        /\ \A f \in {"state", "selected", "mode", "inicmd", "dout"} : ncr'[f] = ncr[f]
      BY <2>5 DEF NcrSet
  <2>7. 0 <= Room(b)
    <3>1. Room(b) \in Nat
        BY <2>2, BankRoom
    <3> QED BY <3>1
  <2>8. media' \in [Images -> BlockSet]
      BY <2>1, <2>2
  <2>9. calls' \in Nat
      BY <2>1, <2>2
  <2>10. ~ Runs(ncr, phase) => UNCHANGED <<bank, media, calls>>
      BY <2>1, <2>2
  <2>11. Runs(ncr, phase) => o \in parseScsiCmd(ncr, bank)
      BY <2>1 DEF PhaseOutcomes
  <2> QED BY <1>2, <2>1, <2>2, <2>4, <2>6, <2>7, <2>8, <2>9, <2>10, <2>11
<1> QED BY <1>1, <1>2

-----------------------------------------------------------------------------
(* The transaction.  What holds at each place of the guest's driver when   *)
(* no bus reset breaks it off.                                             *)

Released == "ACK" \notin ncr.inicmd
InFirst(n) == IF n <= BufBlocks THEN n ELSE BufBlocks

\* Between transactions a change of phase runs nothing.
Rest == Released /\ ncr.tcr \in {"msgIn", "dataOut"} /\ (ncr.tcr = "dataOut" => ncr.bufpos = 0)

SelectingPlaces  == {"arb", "won", "target", "select", "busy", "poll", "found", "absent",
                     "toCommand"}
CommandingPlaces == {"command", "cmdAck", "cmdUnack"}
ClosingPlaces    == {"statusAck", "statusUnack", "toMessage", "message", "msgUnack", "done"}

Linked == ncr.state = "data" /\ ncr.selected = req.target /\ Attached(req.target)

Selecting ==
    /\ Rest /\ calls = 0 /\ sent = 0 /\ got = <<>> /\ status = Nil
    /\ pc \in {"arb", "won", "target"} => ncr.state \in {"arb", "arbdone"}
    /\ pc = "target" => ncr.dout = req.target
    /\ pc \in {"select", "busy"} => ncr.state = "select" /\ ncr.selected = req.target
    /\ pc \in {"poll", "found", "absent"} => ncr.state = "seldone" /\ ncr.selected = req.target
    /\ pc = "poll" => "BSY" \notin ncr.inicmd
    /\ pc = "found" => Attached(req.target)
    /\ pc = "toCommand" => Linked

Fields(n) == \A i \in 1 .. n : bank.cmd[i] = Field(i)

Commanding ==
    /\ Linked /\ ncr.tcr = "command" /\ ncr.buf = "cmd"
    /\ calls = 0 /\ got = <<>> /\ status = Nil
    /\ pc # "cmdUnack" => Released /\ ncr.bufpos = sent /\ Fields(sent) /\ sent <= 3
    /\ pc = "cmdAck" => sent < 3 /\ ncr.dout = Field(sent + 1)
    /\ pc = "cmdUnack" => ncr.bufpos = sent + 1 /\ Fields(sent + 1) /\ sent < 3

\* What the guest has received or sent is on the medium, if the status says so.
Transferred(s) ==
    s = Good /\ (IsRead(req.op) \/ IsWrite(req.op)) =>
        /\ IsRead(req.op) => Len(got) = Asked
        /\ \A i \in 1 .. Asked :
                media[Image(req.target)][At(req.lba) + i - 1] =
                    IF IsRead(req.op) THEN got[i] ELSE req.vals[i]

Result(s) == (DataPhase # "status" => calls = 1) /\ Transferred(s)

\* The command has run; the guest takes what it left in the data bank.
Receiving ==
    /\ Linked /\ Released /\ ncr.tcr = "dataIn" /\ ncr.buf = "data"
    /\ status = Nil /\ calls = 1 /\ sent <= DataUnits /\ ncr.bufpos = InFirst(sent)
    /\ pc = "dmaIn" => "DMA" \in ncr.mode
    /\ Len(got) = sent
    /\ IsRead(req.op) /\ bank.cmd[1] = Good =>
        /\ Asked <= BufBlocks
        /\ \A i \in 1 .. Asked :
              bank.data[i] = media[Image(req.target)][At(req.lba) + i - 1]
        /\ \A i \in 1 .. sent : got[i] = bank.data[i]

\* The command has not run; its fields and the blocks sent wait in the banks.
Sending ==
    /\ Linked /\ Released /\ ncr.tcr = "dataOut" /\ ncr.buf = "data"
    /\ status = Nil /\ calls = 0 /\ sent <= DataUnits /\ ncr.bufpos = InFirst(sent)
    /\ Fields(3)
    /\ \A i \in 1 .. InFirst(sent) : bank.data[i] = req.vals[i]

Ending ==
    /\ Linked /\ Released /\ status = Nil
    /\ \/ /\ DataPhase = "dataIn" /\ ncr.tcr = "dataIn" /\ calls = 1
          /\ Transferred(bank.cmd[1])
       \/ DataPhase = "dataOut" /\ Sending /\ sent = Asked

Reporting ==
    Linked /\ Released /\ ncr.tcr = "status" /\ status = Nil /\ Result(ncr.din)

Closing ==
    /\ ncr.state = "data"
    /\ ncr.tcr = IF pc \in {"statusAck", "statusUnack", "toMessage"} THEN "status" ELSE "msgIn"
    /\ pc \in {"statusAck", "toMessage", "message", "done"} => Released

Protocol ==
    /\ pc # "reset"
    /\ pc = "free" => Rest
    /\ pc \in SelectingPlaces => Selecting
    /\ pc \in CommandingPlaces => Commanding
    /\ pc \in {"dataIn", "dmaIn"} => Receiving
    /\ pc \in {"dataOut", "dmaOut"} => Sending
    /\ pc = "toStatus" => Ending
    /\ pc = "status" => Reporting
    /\ pc \in ClosingPlaces => Closing
    /\ status # Nil => Result(status)

ScsiInv == ScsiTypes /\ (Unbroken => Protocol)

-----------------------------------------------------------------------------
(* The types. *)

LEMMA SameRequest ==
    ASSUME req' = req
    PROVE  /\ DataPhase' = DataPhase /\ DataUnits' = DataUnits /\ Asked' = Asked
           /\ \A i : Field(i)' = Field(i)
BY DEF DataPhase, DataUnits, Asked, Field

LEMMA PhaseValues ==
    DataPhase \in {"dataIn", "dataOut", "status"}
BY DEF DataPhase

LEMMA AskedIsNat ==
    ASSUME req \in Requests
    PROVE  Asked \in Nat /\ DataUnits \in Nat
BY GivenRequests, Given DEF Asked, AskedBlocks, DataUnits

\* A write of the transaction's registers that starts no command.
LEMMA RegTypes ==
    ASSUME RegisterTypes, NEW n \in NcrSet, n.bufpos <= Room(n.buf), Reg(n)
    PROVE  RegisterTypes'
BY DEF RegisterTypes, Reg

LEMMA LineTypes ==
    ASSUME RegisterTypes, NEW val \in SUBSET BusLines, WriteInitiatorCommand(val),
           UNCHANGED <<media, calls>>
    PROVE  RegisterTypes'
<1>1. PICK n : n = BusState(ncr, val)
    OBVIOUS
<1>2. ncr' \in NcrSet /\ bank' \in BankSet /\ ncr'.bufpos <= Room(ncr'.buf)
    BY <1>1, LinesWritten DEF RegisterTypes
<1> QED BY <1>2 DEF RegisterTypes

LEMMA PhaseTypes ==
    ASSUME RegisterTypes, world \in Worlds, NEW phase \in Phases, WriteTargetCommand(phase)
    PROVE  RegisterTypes'
<1>1. /\ media' \in [Images -> BlockSet] /\ ncr' \in NcrSet /\ bank' \in BankSet
      /\ ncr'.bufpos <= Room(ncr'.buf) /\ calls' \in Nat
    BY PhaseWritten DEF RegisterTypes
<1> QED BY <1>1 DEF RegisterTypes

LEMMA StepTypes ==
    ASSUME DriverTypes, NEW from, NEW to \in DriverPlaces, Step(from, to),
           to \in {"dataIn", "dmaIn"} => DataPhase = "dataIn",
           to \in {"dataOut", "dmaOut"} => DataPhase = "dataOut"
    PROVE  DriverTypes'
<1>1. DataPhase' = DataPhase
    BY SameRequest DEF Step
<1> QED BY <1>1 DEF DriverTypes, Step, Goto

LEMMA Tuples == <<0, 0, 0, 0>> \in [1 .. 4 -> Nat] /\ <<0>> \in [1 .. 1 -> Nat]
OBVIOUS

LEMMA TypesInit == ScsiInit => ScsiTypes
<1> SUFFICES ASSUME ScsiInit PROVE ScsiTypes
    OBVIOUS
<1>1. media \in [Images -> BlockSet]
  <2>1. \A b \in 0 .. Size : (IF b = Size THEN Nil ELSE 0) \in Nat \cup {Nil}
      OBVIOUS
  <2> QED BY <2>1 DEF ScsiInit, BlockSet, Blocks
<1>2. ncr \in NcrSet /\ ncr.bufpos = 0 /\ ncr.buf = "cmd"
    BY Given DEF ScsiInit, ncrInit, NcrSet, BusStates, Phases, BankNames
<1>3. bank \in BankSet
  <2>1. <<0, 0, 0, 0>> \in [1 .. 4 -> Nat] /\ <<0>> \in [1 .. 1 -> Nat]
      BY Tuples
  <2> QED BY <2>1 DEF ScsiInit, BankSet
<1>4. RegisterTypes
    BY <1>1, <1>2, <1>3 DEF RegisterTypes, ScsiInit, Room
<1>5. DriverTypes
    BY DEF DriverTypes, ScsiInit, DriverPlaces
<1> QED BY <1>4, <1>5 DEF ScsiTypes

\* The steps that only select, acknowledge or change the phase.
PlainStep ==
    \/ SeeArbitration \/ PutTarget \/ Select \/ DropArb \/ DropBusy \/ SeeTarget \/ GiveUp
    \/ Found \/ StartCommand \/ PutField \/ AckField \/ SetDma \/ ClearDma \/ ToStatus
    \/ AckStatus \/ UnackStatus \/ ToMessage \/ AckMessage \/ UnackMessage \/ Finish
    \/ BusReset \/ EndReset \/ MachineReset

LEMMA PlainDriver ==
    ASSUME DriverTypes, PlainStep
    PROVE  DriverTypes'
<1>1. CASE SeeArbitration \/ PutTarget \/ Select \/ DropArb \/ DropBusy
    BY <1>1, StepTypes DEF SeeArbitration, PutTarget, Select, DropArb, DropBusy, DriverPlaces
<1>2. CASE SeeTarget
  <2>1. (IF Busy(ncr) THEN "found" ELSE "absent") \in {"found", "absent"}
      OBVIOUS
  <2>2. PICK to \in {"found", "absent"} : Step("poll", to)
      BY <1>2, <2>1 DEF SeeTarget
  <2>3. to \in DriverPlaces /\ to \notin {"dataIn", "dmaIn", "dataOut", "dmaOut"}
      BY <2>2 DEF DriverPlaces
  <2> QED BY <2>2, <2>3, StepTypes
<1>3. CASE GiveUp \/ Found \/ StartCommand \/ PutField \/ AckField \/ ToStatus
    BY <1>3, StepTypes
       DEF GiveUp, Found, StartCommand, PutField, AckField, ToStatus, DriverPlaces
<1>4. CASE SetDma
  <2>1. CASE pc = "dataIn"
    <3>1. Step("dataIn", "dmaIn") /\ DataPhase = "dataIn"
        BY <1>4, <2>1 DEF SetDma, DriverTypes
    <3> QED BY <3>1, StepTypes DEF DriverPlaces
  <2>2. CASE pc = "dataOut"
    <3>1. Step("dataOut", "dmaOut") /\ DataPhase = "dataOut"
        BY <1>4, <2>2 DEF SetDma, DriverTypes
    <3> QED BY <3>1, StepTypes DEF DriverPlaces
  <2> QED BY <1>4, <2>1, <2>2 DEF SetDma
<1>5. CASE ClearDma \/ BusReset \/ EndReset \/ MachineReset
    BY <1>5, StepTypes DEF ClearDma, BusReset, EndReset, MachineReset, DriverPlaces
<1>6. CASE AckStatus \/ UnackStatus \/ ToMessage \/ AckMessage \/ UnackMessage \/ Finish
    BY <1>6, StepTypes
       DEF AckStatus, UnackStatus, ToMessage, AckMessage, UnackMessage, Finish, DriverPlaces
<1> QED BY <1>1, <1>2, <1>3, <1>4, <1>5, <1>6 DEF PlainStep

LEMMA FieldIsNat ==
    ASSUME req \in Requests, NEW n \in Nat, n < 3
    PROVE  Field(n + 1) \in Nat
<1>1. req.op \in Nat /\ req.lba \in Nat /\ req.len \in Nat
    BY GivenRequests
<1>2. n = 0 \/ n = 1 \/ n = 2
    OBVIOUS
<1> QED BY <1>1, <1>2 DEF Field

LEMMA PlainRegisters ==
    ASSUME ScsiTypes, PlainStep
    PROVE  RegisterTypes'
<1>0. /\ RegisterTypes /\ world \in Worlds /\ req \in Requests /\ ncr \in NcrSet
      /\ ncr.bufpos <= Room(ncr.buf)
    BY DEF ScsiTypes, DriverTypes, RegisterTypes
<1>1. CASE SeeArbitration
  <2>1. PICK n \in NcrSet : n = ReadInitiatorCommand(ncr) /\ n.bufpos = ncr.bufpos /\ n.buf = ncr.buf
    <3>1. PICK m : m = [ncr EXCEPT !.state = "arbdone"]
        OBVIOUS
    <3>2. m \in NcrSet /\ m.bufpos = ncr.bufpos /\ m.buf = ncr.buf
        BY <1>0, <3>1 DEF NcrSet, BusStates
    <3>3. ReadInitiatorCommand(ncr) \in {m, ncr}
        BY <3>1 DEF ReadInitiatorCommand
    <3> QED BY <1>0, <3>2, <3>3
  <2> QED BY <1>0, <1>1, <2>1, RegTypes DEF SeeArbitration
<1>2. CASE PutTarget \/ PutField
  <2>1. PICK x \in Nat : Reg([ncr EXCEPT !.dout = x, !.din = x])
    <3>1. CASE PutTarget
      <4>1. req.target \in Nat
          BY <1>0, GivenRequests, Given
      <4> QED BY <3>1, <4>1 DEF PutTarget
    <3>2. CASE PutField
      <4>1. Field(sent + 1) \in Nat
          BY <1>0, <3>2, FieldIsNat DEF ScsiTypes, DriverTypes, PutField
      <4> QED BY <3>2, <4>1 DEF PutField
    <3> QED BY <1>2, <3>1, <3>2
  <2>2. PICK n \in NcrSet : /\ n = [ncr EXCEPT !.dout = x, !.din = x]
                            /\ n.bufpos = ncr.bufpos /\ n.buf = ncr.buf
    <3>1. PICK m : m = [ncr EXCEPT !.dout = x, !.din = x]
        OBVIOUS
    <3>2. m \in NcrSet /\ m.bufpos = ncr.bufpos /\ m.buf = ncr.buf
        BY <1>0, <3>1 DEF NcrSet
    <3> QED BY <3>1, <3>2
  <2> QED BY <1>0, <2>1, <2>2, RegTypes
<1>3. CASE DropArb \/ SetDma \/ ClearDma
  <2>1. PICK val \in SUBSET {"ARB", "DMA"} : Reg(WriteMode(ncr, val))
      BY <1>3 DEF DropArb, SetDma, ClearDma
  <2>2. PICK n \in NcrSet : n = WriteMode(ncr, val) /\ n.bufpos = ncr.bufpos /\ n.buf = ncr.buf
    <3>1. /\ WriteMode(ncr, val) \in NcrSet
          /\ WriteMode(ncr, val).bufpos = ncr.bufpos /\ WriteMode(ncr, val).buf = ncr.buf
        BY <1>0, ModeWritten
    <3> QED BY <3>1, Zenon
  <2> QED BY <1>0, <2>1, <2>2, RegTypes
<1>4. CASE SeeTarget \/ (Finish /\ Reg(ncr))
    BY <1>0, <1>4, RegTypes DEF SeeTarget
<1>5. CASE \/ Select \/ DropBusy \/ GiveUp \/ Found \/ AckField \/ AckStatus \/ UnackStatus
           \/ AckMessage \/ UnackMessage \/ BusReset \/ EndReset
  <2>1. PICK val \in SUBSET BusLines :
            WriteInitiatorCommand(val) /\ UNCHANGED <<media, calls>>
    <3>1. \A v \in {{"SEL", "DBUS", "BSY"}, {"SEL", "DBUS"}, {}, {"DBUS", "ACK"}, {"ACK"}, {"RST"}} :
                v \in SUBSET BusLines
        BY DEF BusLines
    <3> QED BY <1>5, <3>1, Zenon DEF Select, DropBusy, GiveUp, Found, AckField, AckStatus,
                    UnackStatus, AckMessage, UnackMessage, BusReset, EndReset
  <2> QED BY <1>0, <2>1, LineTypes
<1>6. CASE StartCommand \/ ToStatus \/ ToMessage \/ (Finish /\ WriteTargetCommand("dataOut"))
  <2>1. PICK phase \in Phases : WriteTargetCommand(phase)
      BY <1>6 DEF StartCommand, ToStatus, ToMessage, Phases
  <2> QED BY <1>0, <2>1, PhaseTypes
<1>7. CASE MachineReset
  <2>1. ncr' \in NcrSet /\ ncr'.bufpos = 0 /\ ncr'.buf = "cmd"
      BY <1>7, Given DEF MachineReset, ncrInit, NcrSet, BusStates, Phases, BankNames
  <2>2. bank' \in BankSet
    <3>1. bank \in BankSet
        BY <1>0 DEF RegisterTypes
    <3>2. bank' = [bank EXCEPT !.cmd = <<0, 0, 0, 0>>, !.msg = <<0>>]
        BY <1>7 DEF MachineReset
    <3>3. PICK c \in [1 .. 4 -> Nat], m \in [1 .. 1 -> Nat] : c = <<0, 0, 0, 0>> /\ m = <<0>>
        BY Tuples
    <3>4. bank' = [bank EXCEPT !.cmd = c, !.msg = m]
        BY <3>2, <3>3
    <3> QED BY <3>1, <3>4 DEF BankSet
  <2> QED BY <1>0, <1>7, <2>1, <2>2 DEF RegisterTypes, MachineReset, Room
<1> QED BY <1>1, <1>2, <1>3, <1>4, <1>5, <1>6, <1>7 DEF PlainStep, Finish

LEMMA ArbitrateTypes == ASSUME ScsiTypes, Arbitrate PROVE ScsiTypes'
<1>1. PICK n \in NcrSet : n = WriteMode(ncr, {"ARB"}) /\ n.bufpos = ncr.bufpos /\ n.buf = ncr.buf
    BY ModeWritten DEF ScsiTypes, RegisterTypes
<1>2. RegisterTypes'
    BY <1>1 DEF ScsiTypes, RegisterTypes, Arbitrate
<1>3. DriverTypes'
    BY DEF ScsiTypes, DriverTypes, Arbitrate, Goto, DriverPlaces
<1> QED BY <1>2, <1>3 DEF ScsiTypes

LEMMA UnackFieldTypes == ASSUME ScsiTypes, UnackField PROVE ScsiTypes'
<1>1. RegisterTypes'
  <2>1. {"DBUS"} \in SUBSET BusLines
      BY DEF BusLines
  <2> QED BY <2>1, LineTypes DEF ScsiTypes, UnackField, RegisterTypes
<1>2. DriverTypes'
    BY DEF ScsiTypes, DriverTypes, UnackField, Goto, DriverPlaces
<1> QED BY <1>1, <1>2 DEF ScsiTypes

LEMMA EndCommandTypes == ASSUME ScsiTypes, EndCommand PROVE ScsiTypes'
<1>1. RegisterTypes'
  <2>1. DataPhase \in Phases
      BY PhaseValues DEF Phases
  <2> QED BY <2>1, PhaseTypes DEF ScsiTypes, DriverTypes, EndCommand
<1>2. DriverTypes'
  <2>1. DataPhase' = DataPhase
      BY SameRequest DEF EndCommand
  <2>2. pc' = DataPhase /\ sent' = 0
      BY DEF EndCommand, Goto
  <2> QED BY <2>1, <2>2, PhaseValues DEF ScsiTypes, DriverTypes, EndCommand, DriverPlaces
<1> QED BY <1>1, <1>2 DEF ScsiTypes

LEMMA ReadDataIs ==
    ASSUME ScsiTypes, NEW dack \in BOOLEAN
    PROVE  /\ ReadData(ncr, dack) \in NcrSet /\ ReadData(ncr, dack).bufpos <= Room(ncr.buf)
           /\ ReadData(ncr, dack).buf = ncr.buf
BY FetchIs DEF ReadData, ScsiTypes, RegisterTypes

LEMMA DmaReadTypes == ASSUME ScsiTypes, DmaRead PROVE ScsiTypes'
<1>1. PICK n \in NcrSet : n = ReadData(ncr, TRUE) /\ n.bufpos <= Room(n.buf)
    BY ReadDataIs
<1>2. RegisterTypes'
    BY <1>1 DEF ScsiTypes, RegisterTypes, DmaRead
<1>3. DriverTypes'
  <2>1. got' \in Seq(Nat)
    <3>1. PICK x \in Nat : x = n.din
        BY DEF NcrSet
    <3>2. got' = Append(got, x) /\ got \in Seq(Nat)
        BY <1>1, <3>1 DEF DmaRead, ScsiTypes, DriverTypes
    <3> QED BY <3>2
  <2>2. DataPhase' = DataPhase
      BY SameRequest DEF DmaRead
  <2>3. /\ UNCHANGED world /\ UNCHANGED pc /\ UNCHANGED req /\ UNCHANGED status
        /\ UNCHANGED commands /\ sent' = sent + 1
      BY DEF DmaRead
  <2> QED BY <2>1, <2>2, <2>3 DEF ScsiTypes, DriverTypes
<1> QED BY <1>2, <1>3 DEF ScsiTypes

\* A block the guest sends.
LEMMA BlockSent ==
    ASSUME req \in Requests, DataPhase = "dataOut", NEW i \in 1 .. DataUnits
    PROVE  req.vals[i] \in Nat /\ IsWrite(req.op) /\ DataUnits = Asked
<1>1. IsWrite(req.op)
    BY DEF DataPhase
<1>2. DataUnits = Asked
    BY <1>1 DEF DataUnits
<1>3. req.vals \in Seq(Vals) /\ Len(req.vals) = Asked
    BY <1>1, GivenWrites DEF Asked
<1>4. req.vals[i] \in Vals
    BY <1>2, <1>3
<1> QED BY <1>1, <1>2, <1>4, Given

LEMMA DmaWriteTypes == ASSUME ScsiTypes, DmaWrite PROVE ScsiTypes'
<1>0. /\ ncr \in NcrSet /\ bank \in BankSet /\ ncr.bufpos <= Room(ncr.buf) /\ req \in Requests
      /\ ncr.bufpos \in Nat /\ ncr.buf \in BankNames /\ sent \in Nat /\ DataPhase = "dataOut"
    BY DEF ScsiTypes, RegisterTypes, DriverTypes, DmaWrite, NcrSet
<1>1. PICK val \in Nat : val = req.vals[sent + 1]
  <2>1. sent + 1 \in 1 .. DataUnits
      BY <1>0, AskedIsNat DEF DmaWrite
  <2> QED BY <1>0, <2>1, BlockSent
<1>2. Store(ncr, val)
    BY <1>1 DEF DmaWrite
<1>3. ncr' \in NcrSet /\ ncr'.bufpos <= Room(ncr'.buf)
  <2>1. bufmax(ncr) = Room(ncr.buf) /\ Room(ncr.buf) \in Nat
      BY <1>0, RoomOfBank
  <2>2. PICK y \in Nat : /\ y = IF ncr.bufpos = bufmax(ncr) \/ ToInitiator(ncr.tcr)
                                THEN ncr.bufpos ELSE ncr.bufpos + 1
                         /\ y <= Room(ncr.buf)
      BY <1>0, <2>1
  <2>3. ncr' = [ncr EXCEPT !.bufpos = y, !.dout = val, !.din = val]
      BY <1>2, <2>2 DEF Store
  <2> QED BY <1>0, <2>2, <2>3 DEF NcrSet
<1>4. bank' \in BankSet
  <2>1. PICK k \in Nat : k = ncr.bufpos + 1
      BY <1>0
  <2>2. bank' = [bank EXCEPT ![ncr.buf][k] = val]
      BY <1>2, <2>1 DEF Store
  <2>3. CASE ncr.buf = "cmd"
      BY <1>0, <2>2, <2>3 DEF BankSet
  <2>4. CASE ncr.buf = "data"
      BY <1>0, <2>2, <2>4 DEF BankSet
  <2>5. CASE ncr.buf = "msg"
      BY <1>0, <2>2, <2>5 DEF BankSet
  <2> QED BY <1>0, <2>3, <2>4, <2>5 DEF BankNames
<1>5. RegisterTypes'
    BY <1>3, <1>4 DEF ScsiTypes, RegisterTypes, DmaWrite
<1>6. DriverTypes'
  <2>1. DataPhase' = DataPhase
      BY SameRequest DEF DmaWrite
  <2> QED BY <2>1 DEF ScsiTypes, DriverTypes, DmaWrite
<1> QED BY <1>5, <1>6 DEF ScsiTypes

LEMMA SeeStatusTypes == ASSUME ScsiTypes, SeeStatus PROVE ScsiTypes'
<1>1. ReadData(ncr, FALSE) = ncr
    BY DEF ReadData
<1>2. status' \in Nat
    BY <1>1 DEF SeeStatus, ScsiTypes, RegisterTypes, NcrSet
<1>3. RegisterTypes'
    BY DEF ScsiTypes, RegisterTypes, SeeStatus, Reg
<1>4. DriverTypes'
    BY <1>2 DEF ScsiTypes, DriverTypes, SeeStatus, Goto, DriverPlaces
<1> QED BY <1>3, <1>4 DEF ScsiTypes

LEMMA TypesStep == ASSUME ScsiTypes, [ScsiNext]_scsiVars PROVE ScsiTypes'
<1>1. CASE PlainStep
    BY <1>1, PlainDriver, PlainRegisters DEF ScsiTypes
<1>2. CASE UNCHANGED scsiVars
  <2>1. DataPhase' = DataPhase
      BY <1>2, SameRequest DEF scsiVars, driver
  <2> QED BY <1>2, <2>1
          DEF ScsiTypes, RegisterTypes, DriverTypes, scsiVars, driver
<1>3. CASE ScsiNext /\ ~ PlainStep
  <2>1. \/ Arbitrate \/ UnackField \/ EndCommand \/ DmaRead \/ DmaWrite \/ SeeStatus
      BY <1>3 DEF ScsiNext, PlainStep
  <2> QED BY <2>1, ArbitrateTypes, UnackFieldTypes, EndCommandTypes, DmaReadTypes,
             DmaWriteTypes, SeeStatusTypes
<1> QED BY <1>1, <1>2, <1>3

-----------------------------------------------------------------------------
(* The steps of the transaction. *)

LEMMA SameWorld ==
    ASSUME world' = world, req' = req
    PROVE  /\ Attached(req.target)' <=> Attached(req.target)
           /\ Image(req.target)' = Image(req.target)
           /\ Unbroken' <=> Unbroken
BY DEF Attached, Image, Unbroken

LEMMA StatusKept ==
    ASSUME UNCHANGED <<world, media, req, got, status, calls>>, status # Nil => Result(status)
    PROVE  status' # Nil => Result(status)'
<1>1. /\ Asked' = Asked /\ DataPhase' = DataPhase
      /\ Image(req.target)' = Image(req.target)
    BY SameRequest, SameWorld
<1> QED BY <1>1 DEF Result, Transferred

LEMMA RestKept ==
    ASSUME Rest, ncr'.tcr = ncr.tcr, ncr'.bufpos = ncr.bufpos, "ACK" \notin ncr'.inicmd
    PROVE  Rest'
BY DEF Rest, Released

LEMMA ProtocolInit == ScsiInit => Protocol
BY DEF ScsiInit, Protocol, Rest, Released, ncrInit, SelectingPlaces, CommandingPlaces,
       ClosingPlaces

LEMMA ArbitrateKeeps == ASSUME ScsiTypes, Protocol, Arbitrate PROVE Protocol'
<1>1. /\ ncr' = WriteMode(ncr, {"ARB"}) /\ ncr \in NcrSet /\ Rest /\ pc' = "arb"
      /\ sent' = 0 /\ got' = <<>> /\ status' = Nil /\ calls' = 0
    BY DEF Arbitrate, Goto, Protocol, ScsiTypes, RegisterTypes
<1>2. /\ ncr'.tcr = ncr.tcr /\ ncr'.bufpos = ncr.bufpos /\ ncr'.inicmd = ncr.inicmd
      /\ ncr'.state = "arb"
    BY <1>1, ModeWritten
<1>3. Rest'
    BY <1>1, <1>2, RestKept DEF Rest, Released
<1>4. Selecting'
    BY <1>1, <1>2, <1>3 DEF Selecting
<1> QED BY <1>1, <1>4 DEF Protocol, SelectingPlaces, CommandingPlaces, ClosingPlaces

\* A step from one place of the selection to another.
LEMMA SelectingKept ==
    ASSUME Selecting, Rest', NEW from, NEW to, Step(from, to), calls' = calls,
           to \in SelectingPlaces,
           to \in {"arb", "won", "target"} => ncr'.state \in {"arb", "arbdone"},
           to = "target" => ncr'.dout = req.target,
           to \in {"select", "busy"} => ncr'.state = "select" /\ ncr'.selected = req.target,
           to \in {"poll", "found", "absent"} =>
                ncr'.state = "seldone" /\ ncr'.selected = req.target,
           to = "poll" => "BSY" \notin ncr'.inicmd,
           to = "found" => Attached(req.target),
           to = "toCommand" =>
                ncr'.state = "data" /\ ncr'.selected = req.target /\ Attached(req.target)
    PROVE  Protocol'
<1>1. /\ sent' = 0 /\ got' = <<>> /\ status' = Nil /\ calls' = 0 /\ req' = req /\ pc' = to
      /\ world' = world
    BY DEF Step, Goto, Selecting
<1>2. Attached(req.target)' <=> Attached(req.target)
    BY <1>1, SameWorld
<1>3. Selecting'
    BY <1>1, <1>2 DEF Selecting, Linked
<1> QED BY <1>1, <1>3 DEF Protocol, SelectingPlaces, CommandingPlaces, ClosingPlaces

LEMMA SeeArbitrationKeeps == ASSUME ScsiTypes, Protocol, SeeArbitration PROVE Protocol'
<1>1. /\ Step("arb", "won") /\ ncr' = ReadInitiatorCommand(ncr) /\ ncr \in NcrSet
      /\ Selecting /\ pc = "arb" /\ calls' = calls
    BY DEF SeeArbitration, Step, Goto, Reg, Protocol, SelectingPlaces, ScsiTypes, RegisterTypes
<1>2. ncr.state \in {"arb", "arbdone"} /\ Rest
    BY <1>1 DEF Selecting
<1>3. /\ ncr'.tcr = ncr.tcr /\ ncr'.bufpos = ncr.bufpos /\ ncr'.inicmd = ncr.inicmd
      /\ ncr'.state \in {"arb", "arbdone"}
  <2>1. PICK m : m = [ncr EXCEPT !.state = "arbdone"]
      OBVIOUS
  <2>2. /\ m.tcr = ncr.tcr /\ m.bufpos = ncr.bufpos /\ m.inicmd = ncr.inicmd
        /\ m.state = "arbdone"
      BY <1>1, <2>1 DEF NcrSet
  <2>3. ncr' \in {m, ncr}
      BY <1>1, <2>1 DEF ReadInitiatorCommand
  <2> QED BY <1>2, <2>2, <2>3
<1>4. Rest'
    BY <1>2, <1>3, RestKept DEF Rest, Released
<1> QED BY <1>1, <1>3, <1>4, SelectingKept DEF SelectingPlaces

LEMMA PutTargetKeeps == ASSUME ScsiTypes, Protocol, PutTarget PROVE Protocol'
<1>1. /\ Step("won", "target") /\ ncr \in NcrSet /\ Selecting /\ pc = "won" /\ calls' = calls
      /\ ncr' = [ncr EXCEPT !.dout = req.target, !.din = req.target]
    BY DEF PutTarget, Step, Goto, Reg, Protocol, SelectingPlaces, ScsiTypes, RegisterTypes
<1>2. ncr.state \in {"arb", "arbdone"} /\ Rest
    BY <1>1 DEF Selecting
<1>3. /\ ncr'.tcr = ncr.tcr /\ ncr'.bufpos = ncr.bufpos /\ ncr'.inicmd = ncr.inicmd
      /\ ncr'.state = ncr.state /\ ncr'.dout = req.target
    BY <1>1 DEF NcrSet
<1>4. Rest'
    BY <1>2, <1>3, RestKept DEF Rest, Released
<1> QED BY <1>1, <1>2, <1>3, <1>4, SelectingKept DEF SelectingPlaces

\* A write of register 1 during the selection moves no byte.
LEMMA LinesInSelection ==
    ASSUME ScsiTypes, Rest, NEW val \in SUBSET BusLines, "ACK" \notin val, "RST" \notin val,
           WriteInitiatorCommand(val)
    PROVE  /\ Rest' /\ ncr'.inicmd = val /\ bank' = bank
           /\ ncr'.state = BusState(ncr, val).state
           /\ ncr'.selected = BusState(ncr, val).selected
<1>1. PICK n \in NcrSet : n = BusState(ncr, val) /\ n.inicmd = ncr.inicmd
    BY BusStateIs DEF ScsiTypes, RegisterTypes
<1>2. ~ Acks(n, val) /\ ~ Unacks(n, val)
    BY <1>1 DEF Acks, Unacks, Rest, Released
<1>3. /\ ncr'.tcr = ncr.tcr /\ ncr'.inicmd = val /\ ncr'.selected = n.selected
      /\ ncr'.state = n.state /\ bank' = bank /\ ncr'.bufpos = ncr.bufpos
    BY <1>1, <1>2, LinesWritten DEF ScsiTypes, RegisterTypes
<1>4. Rest'
    BY <1>3, RestKept
<1> QED BY <1>1, <1>3, <1>4

LEMMA SelectKeeps == ASSUME ScsiTypes, Protocol, Select PROVE Protocol'
<1> DEFINE val == {"SEL", "DBUS", "BSY"}
<1>1. /\ Step("target", "select") /\ ncr \in NcrSet /\ Selecting /\ calls' = calls
      /\ pc = "target" /\ WriteInitiatorCommand(val) /\ req \in Requests
    BY DEF Select, Step, Goto, Protocol, SelectingPlaces, ScsiTypes, RegisterTypes, DriverTypes
<1>2. ncr.state \in {"arb", "arbdone"} /\ Rest /\ ncr.dout = req.target
    BY <1>1 DEF Selecting
<1>3. val \in SUBSET BusLines /\ "ACK" \notin val /\ "RST" \notin val
    BY DEF BusLines
<1>4. Rest' /\ ncr'.state = BusState(ncr, val).state /\ ncr'.selected = BusState(ncr, val).selected
    BY <1>1, <1>2, <1>3, LinesInSelection
<1>5. BusState(ncr, val).state = "select" /\ BusState(ncr, val).selected = req.target
  <2>1. req.target \in Targets
      BY <1>1, GivenRequests
  <2>2. PICK n1 : n1 = [ncr EXCEPT !.state = "select", !.selected = req.target]
      OBVIOUS
  <2>3. n1.state = "select" /\ n1.selected = req.target
      BY <1>1, <2>2 DEF NcrSet
  <2>4. BusState(ncr, val) = n1
      BY <1>2, <2>1, <2>2, <2>3 DEF BusState
  <2> QED BY <2>3, <2>4
<1> QED BY <1>1, <1>4, <1>5, SelectingKept DEF SelectingPlaces

LEMMA DropArbKeeps == ASSUME ScsiTypes, Protocol, DropArb PROVE Protocol'
<1>1. /\ Step("select", "busy") /\ ncr \in NcrSet /\ Selecting /\ pc = "select"
      /\ ncr' = WriteMode(ncr, {}) /\ calls' = calls
    BY DEF DropArb, Step, Goto, Reg, Protocol, SelectingPlaces, ScsiTypes, RegisterTypes
<1>2. ncr.state = "select" /\ ncr.selected = req.target /\ Rest
    BY <1>1 DEF Selecting
<1>3. /\ ncr'.tcr = ncr.tcr /\ ncr'.bufpos = ncr.bufpos /\ ncr'.inicmd = ncr.inicmd
      /\ ncr'.state = "select" /\ ncr'.selected = req.target
    BY <1>1, <1>2, ModeWritten
<1>4. Rest'
    BY <1>2, <1>3, RestKept DEF Rest, Released
<1> QED BY <1>1, <1>3, <1>4, SelectingKept DEF SelectingPlaces

LEMMA DropBusyKeeps == ASSUME ScsiTypes, Protocol, DropBusy PROVE Protocol'
<1> DEFINE val == {"SEL", "DBUS"}
<1>1. /\ Step("busy", "poll") /\ ncr \in NcrSet /\ Selecting /\ pc = "busy" /\ calls' = calls
      /\ WriteInitiatorCommand(val)
    BY DEF DropBusy, Step, Goto, Protocol, SelectingPlaces, ScsiTypes, RegisterTypes
<1>2. ncr.state = "select" /\ ncr.selected = req.target /\ Rest
    BY <1>1 DEF Selecting
<1>3. val \in SUBSET BusLines /\ "ACK" \notin val /\ "RST" \notin val /\ "BSY" \notin val
    BY DEF BusLines
<1>4. /\ Rest' /\ ncr'.inicmd = val
      /\ ncr'.state = BusState(ncr, val).state /\ ncr'.selected = BusState(ncr, val).selected
    BY <1>1, <1>2, <1>3, LinesInSelection
<1>5. BusState(ncr, val).state = "seldone" /\ BusState(ncr, val).selected = req.target
  <2>1. PICK n2 : n2 = [ncr EXCEPT !.state = "seldone"]
      OBVIOUS
  <2>2. n2.state = "seldone" /\ n2.selected = req.target
      BY <1>1, <1>2, <2>1 DEF NcrSet
  <2>3. BusState(ncr, val) = n2
      BY <1>2, <2>1, <2>2 DEF BusState
  <2> QED BY <2>2, <2>3
<1> QED BY <1>1, <1>3, <1>4, <1>5, SelectingKept DEF SelectingPlaces

LEMMA SeeTargetKeeps == ASSUME ScsiTypes, Protocol, SeeTarget PROVE Protocol'
<1>1. PICK to : /\ to = IF Busy(ncr) THEN "found" ELSE "absent"
                /\ Step("poll", to) /\ ncr' = ncr /\ calls' = calls
    BY DEF SeeTarget, Reg
<1>2. /\ Selecting /\ Rest /\ ncr.state = "seldone" /\ ncr.selected = req.target
      /\ "BSY" \notin ncr.inicmd
    BY <1>1 DEF Step, Goto, Protocol, SelectingPlaces, Selecting
<1>3. to = "found" => Attached(req.target)
    BY <1>1, <1>2 DEF Busy
<1>4. Rest'
    BY <1>1, <1>2, RestKept DEF Rest, Released
<1> QED BY <1>1, <1>2, <1>3, <1>4, SelectingKept DEF SelectingPlaces

LEMMA FoundKeeps == ASSUME ScsiTypes, Protocol, Found PROVE Protocol'
<1>1. /\ Step("found", "toCommand") /\ ncr \in NcrSet /\ Selecting /\ pc = "found"
      /\ WriteInitiatorCommand({}) /\ calls' = calls
    BY DEF Found, Step, Goto, Protocol, SelectingPlaces, ScsiTypes, RegisterTypes
<1>2. ncr.state = "seldone" /\ ncr.selected = req.target /\ Rest /\ Attached(req.target)
    BY <1>1 DEF Selecting
<1>3. /\ Rest' /\ ncr'.state = BusState(ncr, {}).state /\ ncr'.selected = BusState(ncr, {}).selected
    BY <1>1, <1>2, LinesInSelection
<1>4. BusState(ncr, {}).state = "data" /\ BusState(ncr, {}).selected = req.target
  <2>1. PICK n2 : n2 = [ncr EXCEPT !.state = "data"]
      OBVIOUS
  <2>2. n2.state = "data" /\ n2.selected = req.target
      BY <1>1, <1>2, <2>1 DEF NcrSet
  <2>3. BusState(ncr, {}) = n2
      BY <1>2, <2>1, <2>2 DEF BusState
  <2> QED BY <2>2, <2>3
<1> QED BY <1>1, <1>2, <1>3, <1>4, SelectingKept DEF SelectingPlaces

LEMMA GiveUpKeeps == ASSUME ScsiTypes, Protocol, GiveUp PROVE Protocol'
<1>1. /\ Step("absent", "free") /\ WriteInitiatorCommand({}) /\ Rest /\ status = Nil
      /\ pc' = "free" /\ status' = Nil
    BY DEF GiveUp, Step, Goto, Protocol, SelectingPlaces, Selecting
<1>2. Rest'
    BY <1>1, LinesInSelection
<1> QED BY <1>1, <1>2 DEF Protocol, SelectingPlaces, CommandingPlaces, ClosingPlaces

-----------------------------------------------------------------------------
(* The command phase. *)

LEMMA LinkedKept ==
    ASSUME Linked, UNCHANGED <<world, req>>, ncr'.state = "data", ncr'.selected = ncr.selected
    PROVE  Linked'
BY SameWorld DEF Linked

\* A write of register 1 with a target connected.
LEMMA LinesInData ==
    ASSUME ScsiTypes, ncr.state = "data", NEW val \in SUBSET BusLines, "RST" \notin val,
           WriteInitiatorCommand(val)
    PROVE  /\ ncr'.state = "data" /\ ncr'.selected = ncr.selected /\ ncr'.tcr = ncr.tcr
           /\ ncr'.buf = ncr.buf /\ ncr'.inicmd = val /\ ncr'.dout = ncr.dout
           /\ ToInitiator(ncr.tcr) => bank' = bank
           /\ ~ ToInitiator(ncr.tcr) /\ "ACK" \notin val =>
                bank' = bank /\ ncr'.bufpos = ncr.bufpos
           /\ /\ ~ ToInitiator(ncr.tcr) /\ "ACK" \in val /\ Released
              /\ ncr.bufpos < Room(ncr.buf)
              => /\ ncr'.bufpos = ncr.bufpos + 1
                 /\ bank' = [bank EXCEPT ![ncr.buf][ncr.bufpos + 1] = ncr.dout]
<1>1. ncr \in NcrSet /\ bank \in BankSet /\ ncr.bufpos <= Room(ncr.buf)
    BY DEF ScsiTypes, RegisterTypes
<1>2. BusState(ncr, val) = ncr
    BY <1>1 DEF BusState
<1>3. Acks(ncr, val) <=> Released /\ "ACK" \in val
    BY DEF Acks, Released
<1> QED BY <1>1, <1>2, <1>3, LinesWritten

LEMMA InCommanding ==
    ASSUME Commanding', pc' \in CommandingPlaces
    PROVE  Protocol'
BY DEF Protocol, Commanding, SelectingPlaces, CommandingPlaces, ClosingPlaces

\* A change of phase that runs no command.
LEMMA PhaseOnly ==
    ASSUME ScsiTypes, NEW phase \in Phases, phase # ncr.tcr, ~ Runs(ncr, phase),
           WriteTargetCommand(phase)
    PROVE  /\ UNCHANGED <<bank, media, calls>> /\ ncr'.tcr = phase /\ ncr'.bufpos = 0
           /\ ncr'.buf = Bank(phase) /\ ncr'.din = bank[Bank(phase)][1]
           /\ ncr'.state = ncr.state /\ ncr'.selected = ncr.selected
           /\ ncr'.inicmd = ncr.inicmd
<1>1. /\ world \in Worlds /\ media \in [Images -> BlockSet] /\ ncr \in NcrSet /\ bank \in BankSet
      /\ ncr.bufpos <= Room(ncr.buf) /\ calls \in Nat
    BY DEF ScsiTypes, RegisterTypes, DriverTypes
<1> QED BY <1>1, PhaseWritten

LEMMA StartCommandKeeps ==
    ASSUME ScsiTypes, Protocol, StartCommand
    PROVE  Protocol' /\ media' = media
<1>1. /\ Step("toCommand", "command") /\ Selecting /\ Linked /\ Rest
      /\ WriteTargetCommand("command")
    BY DEF StartCommand, Step, Goto, Protocol, SelectingPlaces, Selecting
<1>2. "command" \in Phases /\ "command" # ncr.tcr /\ ~ Runs(ncr, "command")
    BY <1>1 DEF Phases, Rest, Runs
<1>3. /\ UNCHANGED <<bank, media, calls>> /\ ncr'.tcr = "command" /\ ncr'.bufpos = 0
      /\ ncr'.buf = "cmd" /\ ncr'.state = ncr.state /\ ncr'.selected = ncr.selected
      /\ ncr'.inicmd = ncr.inicmd
    BY <1>1, <1>2, PhaseOnly DEF Bank
<1>4. Linked'
    BY <1>1, <1>3, LinkedKept DEF Step, Linked
<1>5. pc' = "command" /\ sent' = 0 /\ got' = <<>> /\ status' = Nil /\ calls' = 0
    BY <1>1, <1>3 DEF Step, Goto, Selecting
<1>6. Released' /\ Fields(0)'
    BY <1>1, <1>3 DEF Rest, Released, Fields
<1>7. Commanding'
    BY <1>3, <1>4, <1>5, <1>6 DEF Commanding
<1> QED BY <1>3, <1>5, <1>7, InCommanding DEF CommandingPlaces

LEMMA PutFieldKeeps == ASSUME ScsiTypes, Protocol, PutField PROVE Protocol'
<1>1. /\ Step("command", "cmdAck") /\ sent < 3 /\ Commanding /\ pc = "command"
      /\ ncr' = [ncr EXCEPT !.dout = Field(sent + 1), !.din = Field(sent + 1)]
      /\ bank' = bank /\ calls' = calls /\ ncr \in NcrSet
    BY DEF PutField, Step, Goto, Reg, Protocol, CommandingPlaces, ScsiTypes, RegisterTypes
<1>2. /\ ncr'.dout = Field(sent + 1) /\ ncr'.tcr = ncr.tcr /\ ncr'.bufpos = ncr.bufpos
      /\ ncr'.buf = ncr.buf /\ ncr'.state = ncr.state /\ ncr'.selected = ncr.selected
      /\ ncr'.inicmd = ncr.inicmd
    BY <1>1 DEF NcrSet
<1>3. Linked'
    BY <1>1, <1>2, LinkedKept DEF Step, Linked, Commanding
<1>4. /\ pc' = "cmdAck" /\ sent' = sent /\ got' = got /\ status' = status /\ req' = req
    BY <1>1 DEF Step, Goto
<1>5. \A i : Field(i)' = Field(i)
    BY <1>4, SameRequest
<1>6. ncr'.dout = Field(sent + 1)' /\ Fields(sent)'
  <2>1. Field(sent + 1)' = Field(sent + 1)
      BY <1>4, SameRequest DEF Field
  <2>2. /\ Fields(sent)' <=> \A i \in 1 .. sent' : bank'.cmd[i] = Field(i)'
        /\ Fields(sent) <=> \A i \in 1 .. sent : bank.cmd[i] = Field(i)
      BY DEF Fields
  <2>3. Fields(sent)
      BY <1>1 DEF Commanding
  <2> QED BY <1>1, <1>2, <1>4, <1>5, <2>1, <2>2, <2>3
<1>7. Released'
    BY <1>1, <1>2 DEF Released, Commanding
<1>8. Commanding'
    BY <1>1, <1>2, <1>3, <1>4, <1>6, <1>7 DEF Commanding
<1> QED BY <1>4, <1>8, InCommanding DEF CommandingPlaces

LEMMA AckFieldKeeps == ASSUME ScsiTypes, Protocol, AckField PROVE Protocol'
<1> DEFINE val == {"DBUS", "ACK"}
<1>1. /\ Step("cmdAck", "cmdUnack") /\ Commanding /\ pc = "cmdAck" /\ WriteInitiatorCommand(val)
      /\ calls' = calls /\ bank \in BankSet /\ sent \in Nat /\ req \in Requests
    BY DEF AckField, Step, Goto, Protocol, CommandingPlaces, ScsiTypes, RegisterTypes, DriverTypes
<1>2. val \in SUBSET BusLines /\ "ACK" \in val /\ "RST" \notin val
    BY DEF BusLines
<1>3. /\ Linked /\ ncr.tcr = "command" /\ ncr.buf = "cmd" /\ Released /\ ncr.bufpos = sent
      /\ Fields(sent) /\ sent < 3 /\ ncr.dout = Field(sent + 1) /\ ncr.state = "data"
      /\ got = <<>> /\ status = Nil /\ calls = 0
    BY <1>1 DEF Commanding, Linked
<1>4. ~ ToInitiator(ncr.tcr) /\ ncr.bufpos < Room(ncr.buf)
    BY <1>1, <1>3 DEF ToInitiator, Room
<1> HIDE DEF val
<1>5. /\ ncr'.state = "data" /\ ncr'.selected = ncr.selected /\ ncr'.tcr = "command"
      /\ ncr'.buf = "cmd" /\ ncr'.bufpos = sent + 1
      /\ bank' = [bank EXCEPT !["cmd"][sent + 1] = Field(sent + 1)]
    BY <1>1, <1>2, <1>3, <1>4, LinesInData
<1>6. Linked'
    BY <1>1, <1>3, <1>5, LinkedKept DEF Step
<1>7. pc' = "cmdUnack" /\ sent' = sent /\ got' = got /\ status' = status /\ req' = req
    BY <1>1 DEF Step, Goto
<1>8. \A i : Field(i)' = Field(i)
    BY <1>7, SameRequest
<1>9. \A i \in 1 .. sent + 1 : bank'.cmd[i] = Field(i)
  <2>1. PICK k \in Nat, f \in Nat : k = sent + 1 /\ f = Field(sent + 1) /\ k \in 1 .. 4
      BY <1>1, <1>3, FieldIsNat
  <2>2. bank' = [bank EXCEPT !["cmd"][k] = f]
      BY <1>5, <2>1
  <2>3. bank'.cmd = [bank.cmd EXCEPT ![k] = f] /\ bank.cmd \in [1 .. 4 -> Nat]
      BY <1>1, <2>2 DEF BankSet
  <2>4. bank'.cmd[k] = f /\ \A i \in 1 .. sent : bank'.cmd[i] = bank.cmd[i]
      BY <1>1, <2>1, <2>3
  <2>5. \A i \in 1 .. sent + 1 : i \in 1 .. sent \/ i = k
      BY <1>1, <2>1
  <2> QED BY <1>3, <2>1, <2>4, <2>5 DEF Fields
<1>10. Fields(sent + 1)'
    BY <1>7, <1>8, <1>9 DEF Fields
<1>11. Commanding'
    BY <1>1, <1>3, <1>5, <1>6, <1>7, <1>10 DEF Commanding
<1> QED BY <1>7, <1>11, InCommanding DEF CommandingPlaces

LEMMA UnackFieldKeeps == ASSUME ScsiTypes, Protocol, UnackField PROVE Protocol'
<1>1. /\ Commanding /\ pc = "cmdUnack" /\ pc' = "command" /\ sent' = sent + 1
      /\ WriteInitiatorCommand({"DBUS"}) /\ UNCHANGED <<world, calls, req, got, status>>
      /\ sent \in Nat
    BY DEF UnackField, Goto, Protocol, CommandingPlaces, ScsiTypes, DriverTypes
<1>2. {"DBUS"} \in SUBSET BusLines /\ "ACK" \notin {"DBUS"} /\ "RST" \notin {"DBUS"}
    BY DEF BusLines
<1>3. /\ Linked /\ ncr.tcr = "command" /\ ncr.buf = "cmd" /\ ncr.bufpos = sent + 1
      /\ Fields(sent + 1) /\ sent < 3 /\ ncr.state = "data"
    BY <1>1 DEF Commanding, Linked
<1>4. ~ ToInitiator(ncr.tcr)
    BY <1>3 DEF ToInitiator
<1>5. /\ ncr'.state = "data" /\ ncr'.selected = ncr.selected /\ ncr'.tcr = "command"
      /\ ncr'.buf = "cmd" /\ ncr'.bufpos = sent + 1 /\ ncr'.inicmd = {"DBUS"} /\ bank' = bank
    BY <1>1, <1>2, <1>3, <1>4, LinesInData
<1>6. Linked'
    BY <1>1, <1>3, <1>5, LinkedKept
<1>7. Fields(sent)'
  <2>1. \A i : Field(i)' = Field(i)
      BY <1>1, SameRequest
  <2>2. /\ Fields(sent)' <=> \A i \in 1 .. sent' : bank'.cmd[i] = Field(i)'
        /\ Fields(sent + 1) <=> \A i \in 1 .. sent + 1 : bank.cmd[i] = Field(i)
      BY DEF Fields
  <2> QED BY <1>1, <1>3, <1>5, <2>1, <2>2
<1>8. Released' /\ sent' <= 3
    BY <1>1, <1>3, <1>5 DEF Released
<1>9. Commanding'
    BY <1>1, <1>5, <1>6, <1>7, <1>8 DEF Commanding
<1> QED BY <1>1, <1>9, InCommanding DEF CommandingPlaces

-----------------------------------------------------------------------------
(* The end of the command and the data phase. *)

LEMMA DataPhaseIs ==
    /\ DataPhase = "dataIn" => ~ IsWrite(req.op)
    /\ DataPhase = "dataOut" => /\ IsWrite(req.op) /\ ~ IsRead(req.op) /\ Asked # 0
                                /\ DataUnits = Asked
    /\ DataPhase = "status" => /\ ~ IsRead(req.op) /\ (IsWrite(req.op) => Asked = 0)
    /\ IsRead(req.op) => DataUnits = Asked
<1>1. /\ IsRead(req.op) => req.op = 8 \/ req.op = 40
      /\ IsWrite(req.op) <=> req.op = 10 \/ req.op = 42
    BY DEF IsRead, IsWrite, Read6, Read10, Write6, Write10
<1>2. req.op \in {Inquiry, Capacity, ModeSense} => req.op = 18 \/ req.op = 37 \/ req.op = 26
    BY DEF Inquiry, Capacity, ModeSense
<1> QED BY <1>1, <1>2 DEF DataPhase, DataUnits

LEMMA InReceiving ==
    ASSUME Receiving', pc' \in {"dataIn", "dmaIn"}
    PROVE  Protocol'
BY DEF Protocol, Receiving, SelectingPlaces, CommandingPlaces, ClosingPlaces

LEMMA InSending ==
    ASSUME Sending', pc' \in {"dataOut", "dmaOut"}
    PROVE  Protocol'
BY DEF Protocol, Sending, SelectingPlaces, CommandingPlaces, ClosingPlaces

LEMMA InReporting ==
    ASSUME Reporting', pc' = "status"
    PROVE  Protocol'
BY DEF Protocol, Reporting, SelectingPlaces, CommandingPlaces, ClosingPlaces

LEMMA EndCommandKeeps ==
    ASSUME ScsiTypes, Protocol, EndCommand
    PROVE  Protocol' /\ media' = media
<1>1. /\ Commanding /\ pc = "command" /\ pc' = DataPhase /\ sent = 3 /\ sent' = 0
      /\ WriteTargetCommand(DataPhase) /\ UNCHANGED <<world, req, got, status>>
    BY PhaseValues DEF EndCommand, Goto, Protocol, CommandingPlaces
<1>2. /\ world \in Worlds /\ media \in [Images -> BlockSet] /\ ncr \in NcrSet /\ bank \in BankSet
      /\ ncr.bufpos <= Room(ncr.buf) /\ calls \in Nat /\ req \in Requests
    BY DEF ScsiTypes, RegisterTypes, DriverTypes
<1>3. /\ Linked /\ ncr.tcr = "command" /\ Released /\ Fields(3) /\ ncr.state = "data"
      /\ ncr.selected = req.target /\ Attached(req.target) /\ calls = 0 /\ got = <<>>
      /\ status = Nil
    BY <1>1 DEF Commanding, Linked
<1>4. DataPhase \in Phases /\ DataPhase # ncr.tcr /\ (Runs(ncr, DataPhase) <=> DataPhase = "dataIn")
    BY <1>3, PhaseValues DEF Phases, Runs
<1>5. /\ ncr'.state = ncr.state /\ ncr'.selected = ncr.selected /\ ncr'.inicmd = ncr.inicmd
      /\ ncr'.mode = ncr.mode /\ ncr'.tcr = DataPhase /\ ncr'.bufpos = 0
      /\ ncr'.buf = Bank(DataPhase)
    BY <1>1, <1>2, <1>4, PhaseWritten
<1>6. Linked' /\ Released'
    BY <1>1, <1>3, <1>5, LinkedKept DEF Released
<1>7. DataPhase' = DataPhase /\ DataUnits' = DataUnits /\ Asked' = Asked
    BY <1>1, SameRequest
<1>8. DataUnits \in Nat /\ Asked \in Nat /\ BufBlocks \in Nat
    BY <1>2, AskedIsNat, Given
<1>9. CASE DataPhase = "status"
  <2>1. UNCHANGED <<bank, media, calls>>
      BY <1>1, <1>2, <1>4, <1>9, PhaseOnly
  <2>2. Result(ncr.din)'
    <3>1. ~ IsRead(req.op) /\ (IsWrite(req.op) => Asked = 0)
        BY <1>9, DataPhaseIs
    <3> QED BY <1>1, <1>7, <1>9, <3>1 DEF Result, Transferred
  <2>3. Reporting'
      BY <1>1, <1>3, <1>5, <1>6, <1>9, <2>2 DEF Reporting
  <2> QED BY <1>1, <1>9, <2>1, <2>3, InReporting
<1>10. CASE DataPhase = "dataOut"
  <2>1. UNCHANGED <<bank, media, calls>>
      BY <1>1, <1>2, <1>4, <1>10, PhaseOnly
  <2>2. Fields(3)'
    <3>1. \A i : Field(i)' = Field(i)
        BY <1>1, SameRequest
    <3> QED BY <1>3, <2>1, <3>1 DEF Fields
  <2>3. InFirst(sent)' = 0
      BY <1>1, <1>8 DEF InFirst
  <2>4. Sending'
      BY <1>1, <1>3, <1>5, <1>6, <1>7, <1>8, <1>10, <2>1, <2>2, <2>3 DEF Sending, Bank
  <2> QED BY <1>1, <1>10, <2>1, <2>4, InSending
<1>11. CASE DataPhase = "dataIn"
  <2>1. PICK o \in parseScsiCmd(ncr, bank) :
            /\ bank' = o.bank /\ calls' = calls + o.calls
            /\ media' = IF o.blocks = <<>> THEN media
                        ELSE [media EXCEPT ![Image(ncr.selected)] = o.blocks]
      BY <1>1, <1>2, <1>4, <1>11, PhaseWritten
  <2>2. PICK img \in Images \cup {"none"} : img = Image(req.target)
      BY <1>2, ImageIs, GivenRequests
  <2>3. o \in hdScsiCmd(bank, img, req.op, Asked, req.lba)
    <3>1. \A i \in 1 .. 3 : bank.cmd[i] = Field(i)
        BY <1>3 DEF Fields
    <3>2. parseScsiCmd(ncr, bank) = hdScsiCmd(bank, Image(ncr.selected), req.op, Asked, req.lba)
        BY <1>2, <1>3, <1>11, <3>1, RequestRuns
    <3> QED BY <1>3, <2>1, <2>2, <3>2
  <2>4. /\ o.blocks = <<>> /\ o.calls = 1
        /\ IsRead(req.op) /\ o.bank.cmd[1] = Good =>
                /\ Asked <= BufBlocks
                /\ \A i \in 1 .. Asked : o.bank.data[i] = media[img][At(req.lba) + i - 1]
    <3>0. req.lba \in Nat
        BY <1>2, GivenRequests
    <3>1. CASE IsRead(req.op)
      <4>0. PICK block \in Nat, at \in Nat, len \in Nat :
                block = req.lba /\ at = At(block) /\ len = Asked
          BY <1>8, <3>0, AtIs
      <4>1. o \in ReadCommand(bank, img, block, len)
          BY <2>3, <3>1, <4>0, CommandIs
      <4>2. /\ o.blocks = <<>> /\ o.calls = 1
            /\ o.bank.cmd[1] = Good =>
                /\ len <= BufBlocks
                /\ \A i \in 1 .. len : o.bank.data[i] = media[img][at + i - 1]
          BY <1>2, <4>0, <4>1, ReadEnds
      <4> QED BY <4>0, <4>2
    <3>2. CASE ~ IsRead(req.op)
      <4>1. ~ IsWrite(req.op)
          BY <1>11, DataPhaseIs
      <4>2. Harmless(o)
          BY <1>2, <2>3, <3>2, <4>1, OthersAreHarmless
      <4> QED BY <3>2, <4>2 DEF Harmless
    <3> QED BY <3>1, <3>2
  <2>5. media' = media /\ calls' = 1 /\ bank' = o.bank
      BY <1>3, <2>1, <2>4
  <2>6. Image(req.target)' = img
      BY <1>1, <2>2, SameWorld
  <2>7. InFirst(sent)' = 0
      BY <1>1, <1>8 DEF InFirst
  <2>8. Len(got') = 0
      BY <1>1, <1>3
  <2>9. \A i \in 1 .. sent' : FALSE
      BY <1>1
  <2>10. IsRead(req.op)' /\ bank'.cmd[1] = Good =>
                /\ Asked' <= BufBlocks
                /\ \A i \in 1 .. Asked' :
                      bank'.data[i] = media'[Image(req.target)'][At(req'.lba) + i - 1]
      BY <1>1, <1>7, <2>4, <2>5, <2>6
  <2>11. Receiving'
      BY <1>1, <1>3, <1>5, <1>6, <1>7, <1>8, <1>11, <2>5, <2>7, <2>8, <2>9, <2>10 DEF Receiving, Bank
  <2> QED BY <1>1, <1>11, <2>5, <2>11, InReceiving
<1> QED BY <1>9, <1>10, <1>11, PhaseValues

\* A write of the mode register with a target connected.
LEMMA ModeInData ==
    ASSUME ScsiTypes, Linked, NEW val \in SUBSET {"ARB", "DMA"}, "ARB" \notin val,
           Reg(WriteMode(ncr, val)), UNCHANGED <<world, req>>
    PROVE  /\ Linked' /\ (Released => Released') /\ ncr'.tcr = ncr.tcr /\ ncr'.buf = ncr.buf
           /\ ncr'.bufpos = ncr.bufpos /\ ncr'.mode = val /\ UNCHANGED <<bank, media, calls>>
<1>1. ncr \in NcrSet /\ ncr.state = "data"
    BY DEF ScsiTypes, RegisterTypes, Linked
<1>2. /\ ncr'.selected = ncr.selected /\ ncr'.tcr = ncr.tcr /\ ncr'.buf = ncr.buf
      /\ ncr'.inicmd = ncr.inicmd /\ ncr'.bufpos = ncr.bufpos /\ ncr'.mode = val
      /\ ncr'.state = "data"
    BY <1>1, ModeWritten DEF Reg
<1>3. Linked'
    BY <1>2, LinkedKept
<1> QED BY <1>2, <1>3 DEF Released, Reg

\* What the places of the data phase say of the banks does not change with the place.
LEMMA DataSame ==
    ASSUME UNCHANGED <<world, req, sent, got, status, calls, bank, media>>
    PROVE  /\ DataPhase' = DataPhase /\ DataUnits' = DataUnits /\ Asked' = Asked
           /\ InFirst(sent)' = InFirst(sent) /\ (Fields(3)' <=> Fields(3))
           /\ Image(req.target)' = Image(req.target)
<1>1. \A i : Field(i)' = Field(i)
    BY SameRequest
<1> QED BY <1>1, SameRequest, SameWorld DEF InFirst, Fields

LEMMA SetDmaKeeps == ASSUME ScsiTypes, Protocol, SetDma PROVE Protocol'
<1>1. /\ UNCHANGED <<world, req, sent, got, status>> /\ Reg(WriteMode(ncr, {"DMA"}))
      /\ pc \in {"dataIn", "dataOut"} /\ pc' = IF pc = "dataIn" THEN "dmaIn" ELSE "dmaOut"
    BY DEF SetDma, Step, Goto
<1>2. "ARB" \notin {"DMA"} /\ {"DMA"} \in SUBSET {"ARB", "DMA"}
    OBVIOUS
<1>3. Linked /\ Released
    BY <1>1 DEF Protocol, Receiving, Sending
<1>4. /\ Linked' /\ Released' /\ ncr'.tcr = ncr.tcr /\ ncr'.buf = ncr.buf
      /\ ncr'.bufpos = ncr.bufpos /\ ncr'.mode = {"DMA"} /\ UNCHANGED <<bank, media, calls>>
    BY <1>1, <1>2, <1>3, ModeInData
<1>5. /\ DataPhase' = DataPhase /\ DataUnits' = DataUnits /\ Asked' = Asked
      /\ InFirst(sent)' = InFirst(sent) /\ (Fields(3)' <=> Fields(3))
      /\ Image(req.target)' = Image(req.target)
    BY <1>1, <1>4, DataSame
<1>6. CASE pc = "dataIn"
  <2>1. Receiving
      BY <1>6 DEF Protocol
  <2>2. Receiving'
      BY <1>1, <1>4, <1>5, <1>6, <2>1 DEF Receiving
  <2> QED BY <1>1, <1>6, <2>2, InReceiving
<1>7. CASE pc = "dataOut"
  <2>1. Sending
      BY <1>7 DEF Protocol
  <2>2. Sending'
    <3>1. /\ ncr'.tcr = "dataOut" /\ ncr'.buf = "data" /\ status' = Nil /\ calls' = 0
          /\ sent' <= DataUnits' /\ ncr'.bufpos = InFirst(sent)' /\ Fields(3)'
          /\ \A i \in 1 .. InFirst(sent)' : bank'.data[i] = req'.vals[i]
        BY <1>1, <1>4, <1>5, <2>1 DEF Sending
    <3> QED BY <1>4, <3>1 DEF Sending
  <2> QED BY <1>1, <1>7, <2>2, InSending
<1> QED BY <1>1, <1>6, <1>7

LEMMA FirstOfMore ==
    ASSUME NEW n \in Nat
    PROVE  /\ n < BufBlocks => InFirst(n) = n /\ InFirst(n + 1) = n + 1
           /\ ~ (n < BufBlocks) => InFirst(n) = BufBlocks /\ InFirst(n + 1) = BufBlocks
BY Given DEF InFirst

LEMMA DmaReadKeeps == ASSUME ScsiTypes, Protocol, DmaRead PROVE Protocol'
<1>1. /\ pc = "dmaIn" /\ pc' = pc /\ sent < DataUnits /\ sent' = sent + 1
      /\ ncr' = ReadData(ncr, TRUE) /\ got' = Append(got, ReadData(ncr, TRUE).din)
      /\ UNCHANGED <<world, media, bank, calls, req, status>> /\ Receiving
    BY DEF DmaRead, Protocol
<1>2. /\ ncr \in NcrSet /\ bank \in BankSet /\ ncr.bufpos <= Room(ncr.buf) /\ sent \in Nat
      /\ got \in Seq(Nat) /\ req \in Requests
    BY DEF ScsiTypes, RegisterTypes, DriverTypes
<1>3. /\ Linked /\ Released /\ ncr.tcr = "dataIn" /\ ncr.buf = "data" /\ "DMA" \in ncr.mode
      /\ ncr.bufpos = InFirst(sent) /\ Len(got) = sent /\ status = Nil /\ calls = 1
    BY <1>1 DEF Receiving
<1>4. ReadData(ncr, TRUE) = Fetch(ncr)
    BY <1>3 DEF ReadData, ToInitiator
<1>5. PICK n \in NcrSet :
        /\ n = Fetch(ncr)
        /\ \A f \in {"state", "selected", "tcr", "buf", "mode", "inicmd", "dout", "datalen"} :
                n[f] = ncr[f]
        /\ ncr.bufpos < BufBlocks => n.din = bank.data[ncr.bufpos + 1] /\ n.bufpos = ncr.bufpos + 1
        /\ ncr.bufpos = BufBlocks => n = ncr
    BY <1>2, <1>3, FetchIs DEF Room
<1>6. ncr' = n /\ got' = Append(got, n.din) /\ n.din \in Nat
    BY <1>1, <1>4, <1>5 DEF NcrSet
<1>7. /\ Len(got') = sent + 1 /\ got'[sent + 1] = n.din
      /\ \A i \in 1 .. sent : got'[i] = got[i]
    BY <1>2, <1>3, <1>6
<1>8. Linked' /\ Released' /\ ncr'.tcr = "dataIn" /\ ncr'.buf = "data" /\ "DMA" \in ncr'.mode
  <2>1. ncr'.state = "data" /\ ncr'.selected = ncr.selected
      BY <1>3, <1>5, <1>6 DEF Linked
  <2>2. Linked'
      BY <1>1, <1>3, <2>1, LinkedKept
  <2> QED BY <1>3, <1>5, <1>6, <2>2 DEF Released
<1>9. DataPhase' = DataPhase /\ DataUnits' = DataUnits /\ Asked' = Asked
      /\ Image(req.target)' = Image(req.target) /\ DataUnits \in Nat
    BY <1>1, <1>2, SameRequest, SameWorld, AskedIsNat
<1>10. ncr'.bufpos = InFirst(sent)' /\ sent' <= DataUnits'
  <2>1. InFirst(sent)' = InFirst(sent + 1)
      BY <1>1 DEF InFirst
  <2>2. /\ sent < BufBlocks => InFirst(sent) = sent /\ InFirst(sent + 1) = sent + 1
        /\ ~ (sent < BufBlocks) => InFirst(sent) = BufBlocks /\ InFirst(sent + 1) = BufBlocks
      BY <1>2, FirstOfMore
  <2>3. ncr'.bufpos = InFirst(sent + 1)
      BY <1>3, <1>5, <1>6, <2>2
  <2>4. sent + 1 <= DataUnits
      BY <1>1, <1>2, <1>9
  <2> QED BY <1>1, <1>9, <2>1, <2>3, <2>4
<1>11. ASSUME IsRead(req.op), bank.cmd[1] = Good
       PROVE  /\ Asked <= BufBlocks
              /\ \A i \in 1 .. Asked :
                    bank.data[i] = media[Image(req.target)][At(req.lba) + i - 1]
              /\ \A i \in 1 .. sent + 1 : got'[i] = bank.data[i]
  <2>1. /\ Asked <= BufBlocks
        /\ \A i \in 1 .. Asked :
              bank.data[i] = media[Image(req.target)][At(req.lba) + i - 1]
        /\ \A i \in 1 .. sent : got[i] = bank.data[i]
      BY <1>1, <1>11 DEF Receiving
  <2>2. DataUnits = Asked /\ sent < BufBlocks
    <3>1. DataUnits = Asked
        BY <1>11, DataPhaseIs
    <3> QED BY <1>1, <1>2, <1>9, <2>1, <3>1, Given
  <2>3. got'[sent + 1] = bank.data[sent + 1]
    <3>1. ncr.bufpos = sent
        BY <1>2, <1>3, <2>2, FirstOfMore
    <3> QED BY <1>5, <1>7, <2>2, <3>1
  <2>4. \A i \in 1 .. sent + 1 : i \in 1 .. sent \/ i = sent + 1
      BY <1>2
  <2> QED BY <1>7, <2>1, <2>3, <2>4
<1>12. Receiving'
    BY <1>1, <1>3, <1>7, <1>8, <1>9, <1>10, <1>11 DEF Receiving
<1> QED BY <1>1, <1>12, InReceiving

LEMMA DmaWriteKeeps == ASSUME ScsiTypes, Protocol, DmaWrite PROVE Protocol'
<1>1. /\ pc = "dmaOut" /\ pc' = pc /\ sent < DataUnits /\ sent' = sent + 1
      /\ Store(ncr, req.vals[sent + 1])
      /\ UNCHANGED <<world, media, calls, req, got, status>> /\ Sending
    BY DEF DmaWrite, Protocol
<1>2. /\ ncr \in NcrSet /\ bank \in BankSet /\ ncr.bufpos <= Room(ncr.buf) /\ sent \in Nat
      /\ req \in Requests /\ DataPhase = "dataOut"
    BY <1>1 DEF ScsiTypes, RegisterTypes, DriverTypes
<1>3. /\ Linked /\ Released /\ ncr.tcr = "dataOut" /\ ncr.buf = "data"
      /\ ncr.bufpos = InFirst(sent) /\ status = Nil /\ calls = 0 /\ Fields(3)
      /\ \A i \in 1 .. InFirst(sent) : bank.data[i] = req.vals[i]
    BY <1>1 DEF Sending
<1>4. DataUnits \in Nat /\ BufBlocks \in Nat
    BY <1>2, AskedIsNat, Given
<1>5. PICK val \in Nat : val = req.vals[sent + 1]
  <2>1. sent + 1 \in 1 .. DataUnits
      BY <1>1, <1>2, <1>4
  <2> QED BY <1>2, <2>1, BlockSent
<1>6. PICK k \in Nat : k = ncr.bufpos + 1
    BY <1>2 DEF NcrSet
<1>7. /\ bank' = [bank EXCEPT !["data"][k] = val]
      /\ ncr' = [ncr EXCEPT !.bufpos = IF @ = BufBlocks THEN @ ELSE @ + 1,
                             !.dout = val, !.din = val]
  <2>1. bufmax(ncr) = BufBlocks
      BY <1>2, <1>3, RoomOfBank DEF Room
  <2> QED BY <1>1, <1>3, <1>5, <1>6, <2>1 DEF Store, ToInitiator
<1>8. PICK d \in [1 .. BufBlocks -> Nat] : d = bank.data
    BY <1>2 DEF BankSet
<1>9. bank'.cmd = bank.cmd /\ bank'.data = [d EXCEPT ![k] = val]
    BY <1>2, <1>7, <1>8 DEF BankSet
<1>10. /\ ncr'.state = ncr.state /\ ncr'.selected = ncr.selected /\ ncr'.tcr = ncr.tcr
       /\ ncr'.buf = ncr.buf /\ ncr'.inicmd = ncr.inicmd
       /\ ncr'.bufpos = IF ncr.bufpos = BufBlocks THEN ncr.bufpos ELSE ncr.bufpos + 1
    BY <1>2, <1>7 DEF NcrSet
<1>11. Linked' /\ Released'
    BY <1>1, <1>3, <1>10, LinkedKept DEF Linked, Released
<1>12. DataUnits' = DataUnits /\ Fields(3)'
  <2>1. \A i : Field(i)' = Field(i)
      BY <1>1, SameRequest
  <2> QED BY <1>1, <1>3, <1>9, <2>1, SameRequest DEF Fields
<1>13. InFirst(sent)' = InFirst(sent + 1)
    BY <1>1 DEF InFirst
<1>14. /\ ncr'.bufpos = InFirst(sent)'
       /\ \A i \in 1 .. InFirst(sent)' : bank'.data[i] = req.vals[i]
  <2>1. CASE sent < BufBlocks
    <3>1. InFirst(sent) = sent /\ InFirst(sent + 1) = sent + 1
        BY <1>2, <2>1, FirstOfMore
    <3>2. k = sent + 1 /\ k \in 1 .. BufBlocks /\ ncr'.bufpos = sent + 1
        BY <1>2, <1>3, <1>4, <1>6, <1>10, <2>1, <3>1
    <3>3. bank'.data[k] = val /\ \A i \in 1 .. sent : bank'.data[i] = d[i]
        BY <1>2, <1>4, <1>9, <2>1, <3>2
    <3>4. \A i \in 1 .. sent + 1 : i \in 1 .. sent \/ i = k
        BY <1>2, <3>2
    <3> QED BY <1>3, <1>5, <1>8, <1>13, <3>1, <3>2, <3>3, <3>4
  <2>2. CASE ~ (sent < BufBlocks)
    <3>1. InFirst(sent) = BufBlocks /\ InFirst(sent + 1) = BufBlocks
        BY <1>2, <2>2, FirstOfMore
    <3>2. k \notin 1 .. BufBlocks /\ ncr'.bufpos = BufBlocks
        BY <1>3, <1>4, <1>6, <1>10, <3>1
    <3>3. \A i \in 1 .. BufBlocks : bank'.data[i] = d[i]
        BY <1>9, <3>2
    <3> QED BY <1>3, <1>8, <1>13, <3>1, <3>2, <3>3
  <2> QED BY <2>1, <2>2
<1>15. sent' <= DataUnits'
    BY <1>1, <1>2, <1>4, <1>12
<1>16. Sending'
  <2>1. /\ ncr'.tcr = "dataOut" /\ ncr'.buf = "data" /\ status' = Nil /\ calls' = 0
        /\ \A i \in 1 .. InFirst(sent)' : bank'.data[i] = req'.vals[i]
      BY <1>1, <1>3, <1>10, <1>14
  <2> QED BY <1>11, <1>12, <1>14, <1>15, <2>1 DEF Sending
<1> QED BY <1>1, <1>16, InSending

LEMMA InEnding ==
    ASSUME Ending', pc' = "toStatus"
    PROVE  Protocol'
BY DEF Protocol, Ending, SelectingPlaces, CommandingPlaces, ClosingPlaces

LEMMA ClearDmaKeeps == ASSUME ScsiTypes, Protocol, ClearDma PROVE Protocol'
<1>1. /\ pc \in {"dmaIn", "dmaOut"} /\ pc' = "toStatus" /\ sent = DataUnits
      /\ UNCHANGED <<world, req, sent, got, status>> /\ Reg(WriteMode(ncr, {}))
    BY DEF ClearDma, Step, Goto
<1>2. "ARB" \notin {} /\ {} \in SUBSET {"ARB", "DMA"}
    OBVIOUS
<1>3. Linked /\ Released /\ status = Nil
    BY <1>1 DEF Protocol, Receiving, Sending
<1>4. /\ Linked' /\ Released' /\ ncr'.tcr = ncr.tcr /\ ncr'.buf = ncr.buf
      /\ ncr'.bufpos = ncr.bufpos /\ UNCHANGED <<bank, media, calls>>
    BY <1>1, <1>2, <1>3, ModeInData
<1>5. /\ DataPhase' = DataPhase /\ DataUnits' = DataUnits /\ Asked' = Asked
      /\ InFirst(sent)' = InFirst(sent) /\ (Fields(3)' <=> Fields(3))
      /\ Image(req.target)' = Image(req.target)
    BY <1>1, <1>4, DataSame
<1>6. CASE pc = "dmaIn"
  <2>1. Receiving /\ DataPhase = "dataIn"
      BY <1>6 DEF Protocol, ScsiTypes, DriverTypes
  <2>2. Transferred(bank.cmd[1])
    <3>1. ~ IsWrite(req.op) /\ (IsRead(req.op) => DataUnits = Asked)
        BY <2>1, DataPhaseIs
    <3> QED BY <1>1, <2>1, <3>1 DEF Transferred, Receiving
  <2>3. Transferred(bank.cmd[1])'
      BY <1>1, <1>4, <1>5, <2>2 DEF Transferred
  <2>4. Ending'
      BY <1>1, <1>3, <1>4, <1>5, <2>1, <2>3 DEF Ending, Receiving
  <2> QED BY <1>1, <2>4, InEnding
<1>7. CASE pc = "dmaOut"
  <2>1. Sending /\ DataPhase = "dataOut"
      BY <1>7 DEF Protocol, ScsiTypes, DriverTypes
  <2>2. Sending'
    <3>1. /\ ncr'.tcr = "dataOut" /\ ncr'.buf = "data" /\ status' = Nil /\ calls' = 0
          /\ sent' <= DataUnits' /\ ncr'.bufpos = InFirst(sent)' /\ Fields(3)'
          /\ \A i \in 1 .. InFirst(sent)' : bank'.data[i] = req'.vals[i]
        BY <1>1, <1>4, <1>5, <2>1 DEF Sending
    <3> QED BY <1>4, <3>1 DEF Sending
  <2>3. sent' = Asked'
      BY <1>1, <1>5, <2>1, DataPhaseIs
  <2>4. Ending'
      BY <1>1, <1>3, <1>4, <1>5, <2>1, <2>2, <2>3 DEF Ending
  <2> QED BY <1>1, <2>4, InEnding
<1> QED BY <1>1, <1>6, <1>7

\* What a step may do to the media: see WritesAsAsked.
WriteSound ==
    \A img \in Images, b \in Blocks :
        media'[img][b] # media[img][b] =>
            /\ IsWrite(req.op) /\ sent = Asked /\ img = Image(req.target)
            /\ \/ /\ b \in Span(At(req.lba), Asked)
                  /\ media'[img][b] = req.vals[b - At(req.lba) + 1]
               \/ img = Flash /\ media'[img][b] = Blank /\ ncr'.din = Check

\* The write command of a request, run on what the guest has sent.
LEMMA WriteRuns ==
    ASSUME ScsiTypes, Sending, DataPhase = "dataOut", sent = Asked, WriteTargetCommand("status"),
           UNCHANGED <<world, req>>
    PROVE  /\ calls' = 1 /\ WriteSound
           /\ ncr'.din = Good =>
                \A i \in 1 .. Asked :
                    media'[Image(req.target)][At(req.lba) + i - 1] = req.vals[i]
<1>1. /\ world \in Worlds /\ media \in [Images -> BlockSet] /\ ncr \in NcrSet /\ bank \in BankSet
      /\ ncr.bufpos <= Room(ncr.buf) /\ calls \in Nat /\ req \in Requests
    BY DEF ScsiTypes, RegisterTypes, DriverTypes
<1>2. /\ ncr.tcr = "dataOut" /\ Fields(3) /\ ncr.selected = req.target /\ Attached(req.target)
      /\ calls = 0 /\ ncr.bufpos = InFirst(sent)
      /\ \A i \in 1 .. InFirst(sent) : bank.data[i] = req.vals[i]
    BY DEF Sending, Linked
<1>3. /\ IsWrite(req.op) /\ ~ IsRead(req.op) /\ Asked # 0 /\ Asked \in Nat
      /\ BufBlocks \in Nat /\ BufBlocks > 0
    BY <1>1, DataPhaseIs, AskedIsNat, Given
<1>4. "status" \in Phases /\ "status" # ncr.tcr /\ Runs(ncr, "status")
  <2>1. InFirst(sent) # 0
      BY <1>3 DEF InFirst
  <2> QED BY <1>2, <2>1 DEF Phases, Runs
<1>5. PICK o \in parseScsiCmd(ncr, bank) :
            /\ bank' = o.bank /\ calls' = calls + o.calls
            /\ media' = IF o.blocks = <<>> THEN media
                        ELSE [media EXCEPT ![Image(ncr.selected)] = o.blocks]
    BY <1>1, <1>4, PhaseWritten
<1>6. ncr'.din = o.bank.cmd[1]
  <2>1. ncr'.din = bank'[Bank("status")][1]
      BY <1>1, <1>4, PhaseWritten
  <2> QED BY <1>5, <2>1 DEF Bank
<1>7. PICK im \in Images \cup {"none"}, block \in Nat, at \in Nat, len \in Nat :
        /\ im = Image(req.target) /\ block = req.lba /\ at = At(block) /\ len = Asked
        /\ at = At(req.lba)
    BY <1>1, <1>3, ImageIs, GivenRequests, AtIs
<1>8. o \in WriteCommand(bank, im, block, len)
  <2>1. \A i \in 1 .. 3 : bank.cmd[i] = Field(i)
      BY <1>2 DEF Fields
  <2>2. parseScsiCmd(ncr, bank) = hdScsiCmd(bank, Image(ncr.selected), req.op, Asked, req.lba)
      BY <1>1, <1>2, <2>1, RequestRuns
  <2>3. o \in hdScsiCmd(bank, im, req.op, len, block)
      BY <1>2, <1>5, <1>7, <2>2
  <2> QED BY <1>3, <2>3, CommandIs
<1>9. /\ o.calls = 1 /\ o.bank.cmd[1] \in {Good, Check} /\ WriteEffect(o, bank, im, block, len)
      /\ o.blocks = <<>> \/ (im \in Images /\ o.blocks \in BlockSet)
  <2>1. PICK bk \in BankSet : bk = bank
      BY <1>1
  <2>2. o \in WriteCommand(bk, im, block, len)
      BY <1>8, <2>1
  <2> QED BY <1>1, <2>1, <2>2, WriteEnds
<1>10. calls' = 1
    BY <1>2, <1>5, <1>9
<1>11. Good # Check
    BY DEF Good, Check
<1>12. CASE o.blocks = <<>> /\ o.bank.cmd[1] = Check
  <2>1. media' = media
      BY <1>5, <1>12
  <2> QED BY <1>6, <1>10, <1>11, <1>12, <2>1 DEF WriteSound
<1>13. CASE /\ im \in Images /\ len <= BufBlocks
            /\ \E ok \in BOOLEAN :
                /\ ok = TRUE <=> o.bank.cmd[1] = Good
                /\ Written([ok |-> ok, blocks |-> o.blocks], media[im], im,
                           at, SubSeq(bank.data, 1, len))
  <2>1. PICK ok \in BOOLEAN :
                /\ ok = TRUE <=> o.bank.cmd[1] = Good
                /\ Written([ok |-> ok, blocks |-> o.blocks], media[im], im,
                           at, SubSeq(bank.data, 1, len))
      BY <1>13
  <2>2. PICK vals \in Seq(Nat) : /\ vals = SubSeq(bank.data, 1, len) /\ Len(vals) = len
                                 /\ \A i \in 1 .. len : vals[i] = req.vals[i]
    <3>1. bank.data \in Seq(Nat) /\ Len(bank.data) = BufBlocks
        BY <1>1, <1>3, TupleLen DEF BankSet
    <3>2. InFirst(sent) = len
        BY <1>7, <1>13 DEF InFirst
    <3>3. /\ SubSeq(bank.data, 1, len) \in Seq(Nat) /\ Len(SubSeq(bank.data, 1, len)) = len
          /\ \A i \in 1 .. len : SubSeq(bank.data, 1, len)[i] = bank.data[i]
        BY <1>3, <1>13, <3>1, StartOf
    <3>4. \A i \in 1 .. len : SubSeq(bank.data, 1, len)[i] = req.vals[i]
        BY <1>2, <3>2, <3>3
    <3> QED BY <3>3, <3>4, Zenon
  <2>3. PICK new, was : new = o.blocks /\ was = media[im]
      OBVIOUS
  <2>4. /\ new \in BlockSet
        /\ \A b \in Blocks :
            \/ new[b] = was[b]
            \/ b \in Span(at, len) /\ new[b] = vals[b - at + 1]
            \/ im = Flash /\ ok = FALSE /\ new[b] = Blank
        /\ ok = TRUE => \A i \in 1 .. len : at + i - 1 \in Blocks => new[at + i - 1] = vals[i]
        /\ ok = TRUE /\ len > 0 =>
                IF im = Flash THEN at + len <= Size ELSE 2 * at < OffsetBlocks
    <3>1. Written([ok |-> ok, blocks |-> new], was, im, at, vals)
        BY <2>1, <2>2, <2>3
    <3>2. [ok |-> ok, blocks |-> new].ok = ok /\ [ok |-> ok, blocks |-> new].blocks = new
        OBVIOUS
    <3> QED BY <2>2, <3>1, <3>2 DEF Written
  <2>5. new # <<>>
    <3>1. 0 \in DOMAIN new
        BY <2>4, Given DEF BlockSet, Blocks
    <3> QED BY <3>1
  <2>6. media' = [media EXCEPT ![im] = new]
      BY <1>2, <1>5, <1>7, <2>3, <2>5
  <2>7. media'[im] = new /\ \A img \in Images : img # im => media'[img] = media[img]
      BY <1>1, <1>13, <2>6
  <2>8. ASSUME NEW img \in Images, NEW b \in Blocks, media'[img][b] # media[img][b]
        PROVE  /\ img = im
               /\ \/ b \in Span(at, len) /\ media'[img][b] = req.vals[b - at + 1]
                  \/ img = Flash /\ media'[img][b] = Blank /\ ncr'.din = Check
    <3>1. img = im /\ new[b] # was[b]
        BY <2>3, <2>7, <2>8
    <3>2. CASE b \in Span(at, len) /\ new[b] = vals[b - at + 1]
      <4>1. b - at + 1 \in 1 .. len
          BY <3>2 DEF Span
      <4> QED BY <2>2, <2>7, <3>1, <3>2, <4>1
    <3>3. CASE im = Flash /\ ok = FALSE /\ new[b] = Blank
      <4>1. ncr'.din = Check
          BY <1>6, <1>9, <2>1, <3>3
      <4> QED BY <2>7, <3>1, <3>3, <4>1
    <3> QED BY <2>4, <3>1, <3>2, <3>3
  <2>9. WriteSound
      BY <1>3, <1>7, <2>8 DEF WriteSound
  <2>10. ASSUME ncr'.din = Good, NEW i \in 1 .. len
         PROVE  media'[im][at + i - 1] = req.vals[i]
    <3>1. ok = TRUE
        BY <1>6, <2>1, <2>10
    <3>2. at + len <= Size + 1
      <4>1. at + len <= Size + 1 \/ 2 * at >= OffsetBlocks
        <5>1. /\ Len(req.vals) = Asked
              /\ \/ At(req.lba) + Len(req.vals) <= Size + 1
                 \/ 2 * At(req.lba) >= OffsetBlocks
            BY <1>1, <1>3, GivenWrites DEF Asked
        <5> QED BY <1>7, <5>1
      <4>2. at + len <= Size \/ 2 * at < OffsetBlocks
          BY <1>3, <1>7, <2>4, <3>1
      <4> QED BY <1>7, <4>1, <4>2, Given
    <3>3. at + i - 1 \in Blocks
        BY <3>2, Given DEF Blocks
    <3> QED BY <2>2, <2>4, <2>7, <3>1, <3>3
  <2> QED BY <1>7, <1>10, <2>9, <2>10
<1> QED BY <1>7, <1>9, <1>12, <1>13 DEF WriteEffect

LEMMA ToStatusKeeps ==
    ASSUME ScsiTypes, Protocol, ToStatus
    PROVE  Protocol' /\ WriteSound
<1>1. /\ pc = "toStatus" /\ pc' = "status" /\ UNCHANGED <<world, req, sent, got, status>>
      /\ WriteTargetCommand("status") /\ Ending
    BY DEF ToStatus, Step, Goto, Protocol
<1>2. /\ world \in Worlds /\ media \in [Images -> BlockSet] /\ ncr \in NcrSet /\ bank \in BankSet
      /\ ncr.bufpos <= Room(ncr.buf) /\ calls \in Nat
    BY DEF ScsiTypes, RegisterTypes, DriverTypes
<1>3. Linked /\ Released /\ status = Nil /\ ncr.tcr \in {"dataIn", "dataOut"}
    BY <1>1 DEF Ending, Sending
<1>4. "status" \in Phases /\ "status" # ncr.tcr
    BY <1>3 DEF Phases
<1>5. /\ ncr'.state = ncr.state /\ ncr'.selected = ncr.selected /\ ncr'.inicmd = ncr.inicmd
      /\ ncr'.tcr = "status"
    BY <1>1, <1>2, <1>4, PhaseWritten
<1>6. Linked' /\ Released'
    BY <1>1, <1>3, <1>5, LinkedKept DEF Linked, Released
<1>7. /\ DataPhase' = DataPhase /\ Asked' = Asked /\ Image(req.target)' = Image(req.target)
    BY <1>1, SameRequest, SameWorld
<1>8. CASE /\ DataPhase = "dataIn" /\ ncr.tcr = "dataIn" /\ calls = 1
           /\ Transferred(bank.cmd[1])
  <2>1. ~ Runs(ncr, "status")
      BY <1>8 DEF Runs
  <2>2. UNCHANGED <<bank, media, calls>> /\ ncr'.din = bank.cmd[1]
      BY <1>1, <1>4, <2>1, PhaseOnly DEF Bank
  <2>3. Transferred(ncr.din)'
      BY <1>1, <1>7, <1>8, <2>2 DEF Transferred
  <2>4. Result(ncr.din)'
      BY <1>8, <2>2, <2>3 DEF Result
  <2>5. Reporting'
      BY <1>1, <1>3, <1>5, <1>6, <2>4 DEF Reporting
  <2>6. WriteSound
      BY <2>2 DEF WriteSound
  <2> QED BY <1>1, <2>5, <2>6, InReporting
<1>9. CASE DataPhase = "dataOut" /\ Sending /\ sent = Asked
  <2>1. /\ calls' = 1 /\ WriteSound
        /\ ncr'.din = Good =>
                \A i \in 1 .. Asked :
                    media'[Image(req.target)][At(req.lba) + i - 1] = req.vals[i]
      BY <1>1, <1>9, WriteRuns
  <2>2. IsWrite(req.op) /\ ~ IsRead(req.op)
      BY <1>9, DataPhaseIs
  <2>3. Transferred(ncr.din)'
      BY <1>1, <1>7, <2>1, <2>2 DEF Transferred
  <2>4. Result(ncr.din)'
      BY <2>1, <2>3 DEF Result
  <2>5. Reporting'
      BY <1>1, <1>3, <1>5, <1>6, <2>4 DEF Reporting
  <2> QED BY <1>1, <2>1, <2>5, InReporting
<1> QED BY <1>1, <1>8, <1>9 DEF Ending

-----------------------------------------------------------------------------
(* Status, message and the end. *)

LEMMA InClosing ==
    ASSUME Closing', pc' \in ClosingPlaces, status' # Nil => Result(status)'
    PROVE  Protocol'
BY DEF Protocol, SelectingPlaces, CommandingPlaces, ClosingPlaces

LEMMA SeeStatusKeeps == ASSUME ScsiTypes, Protocol, SeeStatus PROVE Protocol'
<1>1. /\ pc = "status" /\ pc' = "statusAck" /\ status' = ncr.din /\ Reporting
      /\ UNCHANGED <<world, req, sent, got, ncr, bank, media, calls>>
    BY DEF SeeStatus, Goto, Reg, ReadData, Protocol
<1>2. Closing'
    BY <1>1 DEF Closing, Reporting, Linked, Released
<1>3. Result(status)'
  <2>1. /\ DataPhase' = DataPhase /\ Asked' = Asked
        /\ Image(req.target)' = Image(req.target)
      BY <1>1, SameRequest, SameWorld
  <2> QED BY <1>1, <2>1 DEF Reporting, Result, Transferred
<1> QED BY <1>1, <1>2, <1>3, InClosing DEF ClosingPlaces

\* An acknowledge or its release in a phase towards the guest.
LEMMA ClosingLines ==
    ASSUME ScsiTypes, Protocol, NEW from, NEW to, Step(from, to), UNCHANGED <<media, calls>>,
           NEW val \in SUBSET BusLines, "RST" \notin val, WriteInitiatorCommand(val),
           <<from, to>> \in {<<"statusAck", "statusUnack">>, <<"statusUnack", "toMessage">>,
                             <<"message", "msgUnack">>, <<"msgUnack", "done">>},
           to \in {"toMessage", "done"} => "ACK" \notin val
    PROVE  Protocol'
<1>1. /\ pc = from /\ pc' = to /\ UNCHANGED <<world, req, sent, got, status>>
      /\ pc \in ClosingPlaces /\ to \in ClosingPlaces
    BY DEF Step, Goto, ClosingPlaces
<1>2. Closing /\ (status # Nil => Result(status)) /\ ncr.state = "data"
    BY <1>1 DEF Protocol, Closing
<1>3. ncr'.state = "data" /\ ncr'.tcr = ncr.tcr /\ ncr'.inicmd = val
    BY <1>2, LinesInData
<1>4. Closing'
    BY <1>1, <1>2, <1>3 DEF Closing, Released
<1>5. status' # Nil => Result(status)'
    BY <1>1, <1>2, StatusKept
<1> QED BY <1>1, <1>4, <1>5, InClosing

LEMMA ClosingAcks ==
    ASSUME ScsiTypes, Protocol, AckStatus \/ UnackStatus \/ AckMessage \/ UnackMessage
    PROVE  Protocol'
<1>1. {"ACK"} \in SUBSET BusLines /\ {} \in SUBSET BusLines /\ "RST" \notin {"ACK"}
    BY DEF BusLines
<1>2. CASE AckStatus
    BY <1>1, <1>2, ClosingLines DEF AckStatus
<1>3. CASE UnackStatus
    BY <1>1, <1>3, ClosingLines DEF UnackStatus
<1>4. CASE AckMessage
    BY <1>1, <1>4, ClosingLines DEF AckMessage
<1>5. CASE UnackMessage
    BY <1>1, <1>5, ClosingLines DEF UnackMessage
<1> QED BY <1>2, <1>3, <1>4, <1>5

LEMMA ToMessageKeeps ==
    ASSUME ScsiTypes, Protocol, ToMessage
    PROVE  Protocol' /\ media' = media
<1>1. /\ pc = "toMessage" /\ pc' = "message" /\ UNCHANGED <<world, req, sent, got, status>>
      /\ WriteTargetCommand("msgIn") /\ Closing /\ (status # Nil => Result(status))
    BY DEF ToMessage, Step, Goto, Protocol, ClosingPlaces
<1>2. ncr.state = "data" /\ ncr.tcr = "status" /\ Released
    BY <1>1 DEF Closing
<1>3. "msgIn" \in Phases /\ "msgIn" # ncr.tcr /\ ~ Runs(ncr, "msgIn")
    BY <1>2 DEF Phases, Runs
<1>4. /\ UNCHANGED <<bank, media, calls>> /\ ncr'.tcr = "msgIn" /\ ncr'.state = ncr.state
      /\ ncr'.inicmd = ncr.inicmd
    BY <1>1, <1>3, PhaseOnly
<1>5. Closing'
    BY <1>1, <1>2, <1>4 DEF Closing, Released
<1>6. status' # Nil => Result(status)'
    BY <1>1, <1>4, StatusKept
<1> QED BY <1>1, <1>4, <1>5, <1>6, InClosing DEF ClosingPlaces

LEMMA InRest ==
    ASSUME Rest', pc' = "free", status' # Nil => Result(status)'
    PROVE  Protocol'
BY DEF Protocol, SelectingPlaces, CommandingPlaces, ClosingPlaces

LEMMA FinishKeeps ==
    ASSUME ScsiTypes, Protocol, Finish
    PROVE  Protocol' /\ media' = media
<1>1. /\ pc = "done" /\ pc' = "free" /\ UNCHANGED <<world, req, sent, got, status>>
      /\ Reg(ncr) \/ WriteTargetCommand("dataOut")
      /\ Closing /\ (status # Nil => Result(status))
    BY DEF Finish, Step, Goto, Protocol, ClosingPlaces
<1>2. ncr.tcr = "msgIn" /\ Released
    BY <1>1 DEF Closing
<1>3. Rest' /\ UNCHANGED <<media, calls>>
  <2>1. CASE Reg(ncr)
      BY <1>2, <2>1 DEF Reg, Rest, Released
  <2>2. CASE WriteTargetCommand("dataOut")
    <3>1. "dataOut" \in Phases /\ "dataOut" # ncr.tcr /\ ~ Runs(ncr, "dataOut")
        BY <1>2 DEF Phases, Runs
    <3>2. /\ UNCHANGED <<media, calls>> /\ ncr'.tcr = "dataOut" /\ ncr'.bufpos = 0
          /\ ncr'.inicmd = ncr.inicmd
        BY <2>2, <3>1, PhaseOnly
    <3> QED BY <1>2, <3>2 DEF Rest, Released
  <2> QED BY <1>1, <2>1, <2>2
<1>4. status' # Nil => Result(status)'
    BY <1>1, <1>3, StatusKept
<1> QED BY <1>1, <1>3, <1>4, InRest

LEMMA MachineResetKeeps == ASSUME ScsiTypes, Protocol, MachineReset PROVE Protocol'
<1>1. /\ pc' = "free" /\ UNCHANGED <<world, req, sent, got, status, media, calls>>
      /\ ncr' = ncrInit /\ (status # Nil => Result(status))
    BY DEF MachineReset, Step, Goto, Protocol
<1>2. Rest'
    BY <1>1 DEF ncrInit, Rest, Released
<1>3. status' # Nil => Result(status)'
    BY <1>1, StatusKept
<1> QED BY <1>1, <1>2, <1>3, InRest

-----------------------------------------------------------------------------
(* The invariant. *)

LEMMA StutterKeeps == ASSUME Protocol, UNCHANGED scsiVars PROVE Protocol'
<1>1. UNCHANGED <<world, media, ncr, bank, calls, pc, req, sent, got, status>>
    BY DEF scsiVars, driver
<1>2. /\ DataPhase' = DataPhase /\ DataUnits' = DataUnits /\ Asked' = Asked
      /\ \A i : Field(i)' = Field(i)
      /\ Image(req.target)' = Image(req.target) /\ (Attached(req.target)' <=> Attached(req.target))
    BY <1>1, SameRequest, SameWorld
<1>3. /\ (Rest' <=> Rest) /\ (Linked' <=> Linked) /\ (Released' <=> Released)
      /\ InFirst(sent)' = InFirst(sent)
    BY <1>1, <1>2 DEF Rest, Released, Linked, InFirst
<1>4. (Selecting' <=> Selecting) /\ (Closing' <=> Closing)
    BY <1>1, <1>2, <1>3 DEF Selecting, Closing
<1>5. Commanding' <=> Commanding
    BY <1>1, <1>2, <1>3 DEF Commanding, Fields
<1>6. Receiving' <=> Receiving
    BY <1>1, <1>2, <1>3 DEF Receiving
<1>7. Sending' <=> Sending
    BY <1>1, <1>2, <1>3 DEF Sending, Fields
<1>8. Ending' <=> Ending
    BY <1>1, <1>2, <1>3, <1>7 DEF Ending, Transferred
<1>9. (Reporting' <=> Reporting) /\ (Result(status)' <=> Result(status))
    BY <1>1, <1>2, <1>3 DEF Reporting, Result, Transferred
<1> QED BY <1>1, <1>3, <1>4, <1>5, <1>6, <1>7, <1>8, <1>9 DEF Protocol

LEMMA ProtocolStep ==
    ASSUME ScsiTypes, Protocol, Unbroken, [ScsiNext]_scsiVars
    PROVE  Protocol' /\ WriteSound
<1>1. ASSUME media' = media PROVE WriteSound
    BY <1>1 DEF WriteSound
<1>2. CASE \/ Arbitrate \/ SeeArbitration \/ PutTarget \/ Select \/ DropArb \/ DropBusy
           \/ SeeTarget \/ GiveUp \/ Found
  <2>1. media' = media
      BY <1>2 DEF Arbitrate, SeeArbitration, PutTarget, Select, DropArb, DropBusy, SeeTarget,
                  GiveUp, Found, Reg
  <2> QED BY <1>1, <1>2, <2>1, ArbitrateKeeps, SeeArbitrationKeeps, PutTargetKeeps, SelectKeeps,
             DropArbKeeps, DropBusyKeeps, SeeTargetKeeps, GiveUpKeeps, FoundKeeps
<1>3. CASE StartCommand \/ PutField \/ AckField \/ UnackField \/ EndCommand
  <2>1. PutField \/ AckField \/ UnackField => media' = media
      BY DEF PutField, AckField, UnackField, Reg
  <2> QED BY <1>1, <1>3, <2>1, StartCommandKeeps, PutFieldKeeps, AckFieldKeeps, UnackFieldKeeps,
             EndCommandKeeps
<1>4. CASE SetDma \/ DmaRead \/ DmaWrite \/ ClearDma
  <2>1. media' = media
      BY <1>4 DEF SetDma, DmaRead, DmaWrite, ClearDma, Reg
  <2> QED BY <1>1, <1>4, <2>1, SetDmaKeeps, DmaReadKeeps, DmaWriteKeeps, ClearDmaKeeps
<1>5. CASE ToStatus
    BY <1>5, ToStatusKeeps
<1>6. CASE SeeStatus \/ AckStatus \/ UnackStatus \/ AckMessage \/ UnackMessage \/ MachineReset
  <2>1. media' = media
      BY <1>6 DEF SeeStatus, AckStatus, UnackStatus, AckMessage, UnackMessage, MachineReset, Reg
  <2> QED BY <1>1, <1>6, <2>1, SeeStatusKeeps, ClosingAcks, MachineResetKeeps
<1>7. CASE ToMessage \/ Finish
    BY <1>1, <1>7, ToMessageKeeps, FinishKeeps
<1>8. CASE UNCHANGED scsiVars
    BY <1>1, <1>8, StutterKeeps DEF scsiVars
<1>9. ~ BusReset /\ ~ EndReset
    BY DEF BusReset, EndReset, Step, Goto, Unbroken, Protocol
<1> QED BY <1>2, <1>3, <1>4, <1>5, <1>6, <1>7, <1>8, <1>9 DEF ScsiNext

LEMMA SameWorldStep == ASSUME [ScsiNext]_scsiVars PROVE world' = world
BY DEF ScsiNext, scsiVars, Arbitrate, SeeArbitration, PutTarget, Select, DropArb, DropBusy,
       SeeTarget, GiveUp, Found, StartCommand, PutField, AckField, UnackField, EndCommand,
       SetDma, DmaRead, DmaWrite, ClearDma, ToStatus, SeeStatus, AckStatus, UnackStatus,
       ToMessage, AckMessage, UnackMessage, Finish, BusReset, EndReset, MachineReset, Step

LEMMA ScsiInvInit == ScsiInit => ScsiInv
BY TypesInit, ProtocolInit DEF ScsiInv

LEMMA ScsiInvStep == ASSUME ScsiInv, [ScsiNext]_scsiVars PROVE ScsiInv'
<1>1. ScsiTypes'
    BY TypesStep DEF ScsiInv
<1>2. Unbroken' <=> Unbroken
    BY SameWorldStep DEF Unbroken
<1>3. Unbroken => Protocol'
    BY ProtocolStep DEF ScsiInv
<1> QED BY <1>1, <1>2, <1>3 DEF ScsiInv

LEMMA ScsiInvHolds == ScsiSpec => []ScsiInv
BY ScsiInvInit, ScsiInvStep, PTL DEF ScsiSpec

LEMMA TypesSay == ScsiInv => ScsiTypeOK
<1> SUFFICES ASSUME ScsiInv, ScsiTypes PROVE ScsiTypeOK
    BY DEF ScsiInv
<1>1. /\ ncr \in NcrSet /\ bank \in BankSet /\ ncr.bufpos <= Room(ncr.buf)
      /\ media \in [Images -> BlockSet]
    BY DEF ScsiTypes, RegisterTypes
<1>2. /\ ncr.state \in BusStates /\ ncr.selected \in Targets /\ ncr.tcr \in Phases
      /\ ncr.bufpos \in Nat /\ ncr.din \in Nat
    BY <1>1 DEF NcrSet
<1>3. bufmax(ncr) = Room(ncr.buf) /\ Room(ncr.buf) \in Nat
    BY <1>1, RoomOfBank
<1>4. ncr.bufpos \in 0 .. bufmax(ncr) /\ ncr.din # Nil
    BY <1>1, <1>2, <1>3 DEF Nil
<1>5. Len(bank.data) = BufBlocks /\ Len(bank.cmd) = 4 /\ Len(bank.msg) = 1
    BY <1>1, TupleLen, Given DEF BankSet
<1>6. \A img \in Images : media[img] \in [Blocks -> Nat \cup {Nil}]
    BY <1>1 DEF BlockSet
<1>7. ASSUME "bus" \notin world.resets, pc = "dmaOut", sent < DataUnits
      PROVE  ncr.bufpos < bufmax(ncr)
  <2>1. Sending
      BY <1>7 DEF ScsiInv, Unbroken, Protocol
  <2>2. req \in Requests /\ DataPhase = "dataOut" /\ sent \in Nat
      BY <1>7 DEF ScsiTypes, DriverTypes
  <2>3. IsWrite(req.op) /\ DataUnits = Asked
      BY <2>2 DEF DataPhase, DataUnits
  <2>4. DataUnits \in Nat /\ DataUnits <= BufBlocks /\ BufBlocks \in Nat
      BY <2>2, <2>3, AskedIsNat, GivenWrites, Given DEF Asked
  <2>5. InFirst(sent) = sent /\ sent < BufBlocks
      BY <1>7, <2>2, <2>4 DEF InFirst
  <2>6. bufmax(ncr) = BufBlocks
      BY <1>3, <2>1 DEF Sending, Room
  <2> QED BY <2>1, <2>5, <2>6 DEF Sending
<1> QED BY <1>2, <1>4, <1>5, <1>6, <1>7 DEF ScsiTypeOK, BusStates

\* A read or write that the guest sees end with status GOOD has been done (hd.cpp:200 and
\* 219), for any number of targets, blocks and commands, whatever fails and whenever the
\* machine is reset, of the blocks whose byte offset 32 bits hold.
THEOREM StatusTellsTheTruth == ScsiSpec => []GoodMeansDone
<1>1. ScsiInv => GoodMeansDone
  <2>1. ASSUME ScsiInv, Unbroken, status = Good PROVE Transferred(Good)
    <3>1. status # Nil
        BY <2>1 DEF Good, Nil
    <3> QED BY <2>1, <3>1 DEF ScsiInv, Protocol, Result
  <2>2. Transferred(Good) => ((IsRead(req.op) \/ IsWrite(req.op)) =>
          /\ IsRead(req.op) => Len(got) = Asked
          /\ \A i \in 1 .. Asked :
                media[Image(req.target)][At(req.lba) + i - 1] =
                    IF IsRead(req.op) THEN got[i] ELSE req.vals[i])
      BY DEF Transferred
  <2>3. ScsiInv => ScsiTypeOK
      BY TypesSay
  <2>4. ASSUME ScsiInv, Addressable PROVE At(req.lba) = req.lba
      BY <2>4, AtIs, GivenRequests DEF ScsiInv, ScsiTypes, DriverTypes, Addressable
  <2> QED BY <2>1, <2>2, <2>3, <2>4 DEF GoodMeansDone
<1> QED BY <1>1, ScsiInvHolds, PTL

\* When the guest reads the status of a command with a data phase, the disk has run that
\* command exactly once (ncr.c:369).
THEOREM CommandsRunOnce == ScsiSpec => []ExecutedOnce
<1>1. ScsiInv => ExecutedOnce
    BY DEF ScsiInv, Protocol, Result, ExecutedOnce
<1> QED BY <1>1, ScsiInvHolds, PTL

\* Every step that changes a block is a write command sent in full, to the target's own image
\* and the blocks asked for; a neighbour is lost only to a failed flash, and CHECK CONDITION
\* says so (storage_backend.cpp), of the blocks whose byte offset 32 bits hold.
THEOREM WritesGoWhereAsked == ScsiSpec => WritesAsAsked
<1> DEFINE Asks == \A img \in Images, b \in Blocks :
                media'[img][b] # media[img][b] =>
                    /\ IsWrite(req.op) /\ sent = Asked /\ img = Image(req.target)
                    /\ \/ /\ b \in Span(req.lba, Asked)
                          /\ media'[img][b] = req.vals[b - req.lba + 1]
                       \/ img = Flash /\ media'[img][b] = Blank /\ ncr'.din = Check
<1>1. ASSUME ScsiInv, [ScsiNext]_scsiVars, Unbroken, Addressable PROVE Asks
  <2>1. WriteSound
      BY <1>1, ProtocolStep DEF ScsiInv
  <2>2. At(req.lba) = req.lba
      BY <1>1, AtIs, GivenRequests DEF ScsiInv, ScsiTypes, DriverTypes, Addressable
  <2> QED BY <2>1, <2>2 DEF WriteSound
<1>2. ScsiInv /\ [ScsiNext]_scsiVars => [Unbroken /\ Addressable => Asks]_scsiVars
    BY <1>1
<1> QED BY <1>2, ScsiInvHolds, PTL DEF ScsiSpec, WritesAsAsked
=============================================================================
