-------------------------------- MODULE Rtc ---------------------------------
(***************************************************************************)
(* The clock chip and its 32 bytes (tme/rtc.c), which the guest reaches    *)
(* bit by bit through the VIA's port B, the flash copy of the bytes        *)
(* (saveRtcMem of main.cpp) and the network time task (net_time.cpp),      *)
(* which writes the same bytes from the other core without a lock.         *)
(*                                                                         *)
(* The clock's bytes come twice: 0 .. ClockBytes-1 and the copies after    *)
(* them; what follows is parameter memory.  In the firmware ClockBytes is  *)
(* 4, a byte has DataBits = 8 bits, a command CommandBits = 8: the read    *)
(* flag, an address of AddressBits = 5, and two spare bits.                *)
(***************************************************************************)
EXTENDS Integers, Sequences

CONSTANTS ClockBytes, DataBits, CommandBits, AddressBits,
          Epoch,          \* 2082844800: Macintosh time at Unix time 0
          MinHost,        \* 1600000000: a host clock before it is not set
          MaxHost,        \* bound on the host's time
          ZoneOffset,     \* tzOffsetSeconds of setting.txt
          PramUsed,       \* the parameter bytes the guest uses
          PramValues,     \* and the values it gives them
          SetTimes,       \* times the guest sets
          MaxSyncs,       \* bound on the syncs with a time server
          MayFail,        \* may nvs_open fail?
          Pb7Driven       \* may the VIA's timer move PB7 while the guest reads?

Pow2[n \in Nat] == IF n = 0 THEN 1 ELSE 2 * Pow2[n - 1]

Base == Pow2[DataBits]
Frame == CommandBits + DataBits             \* bits of one access
Registers == 0 .. Pow2[AddressBits] - 1
ClockRegisters == 0 .. 2 * ClockBytes - 1
\* The weight of byte i of a time.
Weight(i) == Pow2[DataBits * i]
Times == 0 .. Weight(ClockBytes) - 1

ASSUME RtcConstants ==
    /\ {ClockBytes, DataBits, CommandBits, AddressBits} \subseteq Nat \ {0}
    /\ {Epoch, MinHost, MaxHost, MaxSyncs} \subseteq Nat /\ ZoneOffset \in Int
    /\ AddressBits < CommandBits /\ ClockRegisters \subseteq Registers
    /\ PramUsed \subseteq Registers \ ClockRegisters
    /\ PramValues \subseteq 0 .. Base - 1 /\ SetTimes \subseteq Times
    /\ {MayFail, Pb7Driven} \subseteq BOOLEAN

VARIABLES
    pos, cmd, lastClkVal,   \* rtc.pos, rtc.cmd (bit i is the i-th sent), rtc.lastClkVal
    mem,                    \* rtc.mem
    line,                   \* bit 0 of port B as the guest reads it
    zone,                   \* rtcTimezoneOffsetSeconds
    host,                   \* time(NULL)
    nvs,                    \* the blob "pram" in flash
    flash,                  \* who is in nvs_set_blob, and with which bytes
    emu, net,               \* where the emulator and the time task are
    macTime,                \* syncRtcFromNtpConfig's macTime
    syncs,                  \* syncs begun
    guest,                  \* the guest's program
    \* history
    pram,                   \* what the guest last wrote to parameter memory
    unsaved,                \* the guest's last save failed
    real,                   \* the times the clock has had since the guest began to read
    disturbed               \* the bytes were written by another while it read or wrote them

chipVars == <<pos, cmd, lastClkVal, line>>
hostVars == <<zone, host>>
flashVars == <<nvs, flash, unsaved>>
netVars == <<net, macTime, syncs>>
rtcVars == <<chipVars, mem, hostVars, flashVars, emu, netVars, guest, pram, real, disturbed>>

-----------------------------------------------------------------------------
(* Times and bytes *)

\* Byte i of a time, the lowest first.
ByteOf(t, i) == (t \div Weight(i)) % Base

\* rtcReadMacTimeFromMem of the bytes m from base on.
TimeIn(m, base) ==
    LET sum[i \in 0 .. ClockBytes] ==
            IF i = 0 THEN 0 ELSE sum[i - 1] + m[base + i - 1] * Weight(i - 1)
    IN  sum[ClockBytes]

\* The Macintosh time of a host time, as a uint32_t.
MacTime(unix, tz) == (unix + Epoch + tz) % Weight(ClockBytes)

HostSet == host >= MinHost

\* The host time that a Macintosh time stands for, or the present one if
\* rtcSetHostTimeFromMac ignores it.
HostFromMac(t) ==
    LET unix == t - Epoch - zone
    IN  IF unix < MinHost THEN host ELSE unix

\* The guest is reading or setting the time.
Busy == guest.op \in {"readTime", "setTime"}

\* The history of the clock while the guest reads it.
Note(t) == real' = IF guest.op = "readTime" THEN real \union {t} ELSE real

-----------------------------------------------------------------------------
(* rtcWriteMacTimeToMem, one store at a time, by either task: the bytes and  *)
(* their copies, a copy from the register or from the byte read back.        *)

Idle == [at |-> "idle"]
Writing(t, next) == [at |-> "write", time |-> t, store |-> 0, next |-> next]

StoreByte(task) ==
    /\ task.at = "write"
    /\ LET i == task.store \div 2
       IN  IF task.store % 2 = 0
           THEN mem' = [mem EXCEPT ![i] = ByteOf(task.time, i)]
           ELSE \E b \in {ByteOf(task.time, i), mem[i]} :
                    mem' = [mem EXCEPT ![ClockBytes + i] = b]

\* Mistake: the last copy is left out.
AfterStoreShort(task) ==
    IF task.store + 2 = 2 * ClockBytes THEN [at |-> task.next] ELSE [task EXCEPT !.store = @ + 1]

AfterStore(task) ==
    IF task.store + 1 = 2 * ClockBytes
    THEN [at |-> task.next]
    ELSE [task EXCEPT !.store = @ + 1]

(* saveRtcMem: NVS lets one task in at a time and keeps the old blob until   *)
(* the new one is complete.                                                  *)

\* Mistake: a save that finds another under way counts on it.
SaveBeginsOnce(me, task) ==
    /\ task.at = "save"
    /\ flash' = IF flash = <<>> THEN <<me, mem>> ELSE <<me, flash[2]>>
    /\ UNCHANGED <<nvs, unsaved>>

SaveBegins(me, task) ==
    /\ task.at = "save" /\ flash = <<>>
    /\ flash' = <<me, mem>>
    /\ UNCHANGED <<nvs, unsaved>>

SaveFails(me, task) ==
    /\ MayFail /\ task.at = "save"
    /\ unsaved' = (unsaved \/ me = "emu")
    /\ UNCHANGED <<nvs, flash>>

SaveEnds(me, task) ==
    /\ task.at = "saving" /\ flash # <<>> /\ flash[1] = me
    /\ nvs' = flash[2] /\ flash' = <<>>
    /\ unsaved' = (unsaved /\ me # "emu")

-----------------------------------------------------------------------------
(* rtcCom.  The emulator's task runs the guest, so the guest waits while     *)
(* emu is not idle.                                                          *)

Bits == 0 .. Frame - 1
NoBits == [i \in Bits |-> 0]

Reads(c) == c[0] = 1

Number(c, first, n) ==
    LET sum[i \in 0 .. n] == IF i = 0 THEN 0 ELSE 2 * sum[i - 1] + c[first + i - 1]
    IN  sum[n]

Address(c) == Number(c, 1, AddressBits)
Data(c) == Number(c, CommandBits, DataBits)

\* rtc.cmd |= rtc.mem[addr]
WithData(c, byte) ==
    [i \in Bits |->
        IF i < CommandBits THEN c[i]
        ELSE IF c[i] = 1 THEN 1 ELSE (byte \div Pow2[Frame - 1 - i]) % 2]

\* Mistake: the line is taken in while the chip answers.
AccumulatedAlways(dat) ==
    IF dat = 1 /\ pos < Frame THEN [cmd EXCEPT ![pos] = 1] ELSE cmd

\* The bit taken in at a rising edge.
Accumulated(dat) ==
    IF dat = 1 /\ (pos < CommandBits \/ (pos < Frame /\ ~Reads(cmd)))
    THEN [cmd EXCEPT ![pos] = 1]
    ELSE cmd

\* The bytes after a complete write: a byte of the clock is copied to the
\* other half, at once for the first half, with the last byte for the second.
\* Mistake: the second half is not copied back.
WrittenOneWay(addr, byte) ==
    LET m == [mem EXCEPT ![addr] = byte]
    IN  [r \in Registers |->
            IF addr < ClockBytes /\ r \in ClockBytes .. 2 * ClockBytes - 1
            THEN m[r - ClockBytes] ELSE m[r]]

Written(addr, byte) ==
    LET m == [mem EXCEPT ![addr] = byte]
        half(from, to) ==
            [r \in Registers |->
                IF r \in to .. to + ClockBytes - 1 THEN m[from + r - to] ELSE m[r]]
    IN  IF addr < ClockBytes THEN half(0, ClockBytes)
        ELSE IF addr = 2 * ClockBytes - 1 THEN half(ClockBytes, 0)
        ELSE m

Commits(addr) == addr \in {ClockBytes - 1, 2 * ClockBytes - 1}

\* rtcCom without an edge, or deselected: no bit on the line.
NoEdge(en, clk) ==
    /\ line' = 0 /\ lastClkVal' = clk
    /\ IF en = 1 THEN pos' = 0 /\ cmd' = NoBits ELSE UNCHANGED <<pos, cmd>>
    /\ UNCHANGED <<mem, hostVars, flashVars, emu, pram, real>>

\* A rising edge that moves a bit and nothing else.
MovesBit(dat) ==
    LET c == Accumulated(dat)
    IN  /\ IF Reads(c) THEN pos # CommandBits ELSE pos # Frame - 1
        /\ cmd' = c
        /\ line' = IF Reads(c) THEN c[pos] ELSE 0
        /\ pos' = pos + 1 /\ lastClkVal' = 1
        /\ UNCHANGED <<mem, hostVars, flashVars, emu, pram, real>>

\* Mistake: a reading is refreshed without the timezone.
FetchesByteInUtc(dat) ==
    /\ Reads(cmd) /\ pos = CommandBits
    /\ emu' = IF Address(cmd) \in ClockRegisters /\ HostSet
              THEN Writing(MacTime(host, 0), "fetch") ELSE [at |-> "fetch"]
    /\ lastClkVal' = 1
    /\ UNCHANGED <<pos, cmd, line, mem, hostVars, flashVars, pram, real>>

\* The edge of a read's first data bit: a clock register is refreshed first.
FetchesByte(dat) ==
    /\ Reads(cmd) /\ pos = CommandBits
    /\ emu' = IF Address(cmd) \in ClockRegisters /\ HostSet
              THEN Writing(MacTime(host, zone), "fetch") ELSE [at |-> "fetch"]
    /\ lastClkVal' = 1
    /\ UNCHANGED <<pos, cmd, line, mem, hostVars, flashVars, pram, real>>

\* The edge of a write's last bit.
CompletesWrite(dat) ==
    LET c == Accumulated(dat)
        addr == Address(c)
        m == Written(addr, Data(c))
        h == HostFromMac(TimeIn(m, (addr \div ClockBytes) * ClockBytes))
    IN  /\ ~Reads(cmd) /\ pos = Frame - 1
        /\ cmd' = c /\ mem' = m
        /\ host' = IF Commits(addr) THEN h ELSE host
        /\ pram' = IF addr \in PramUsed THEN [pram EXCEPT ![addr] = guest.value] ELSE pram
        /\ emu' = [at |-> "save"]
        /\ pos' = pos + 1 /\ lastClkVal' = 1 /\ line' = 0
        /\ UNCHANGED <<zone, flashVars, real>>

RtcCom(en, dat, clk) ==
    /\ emu = Idle
    /\ IF en = 1 \/ clk = lastClkVal \/ clk = 0
       THEN NoEdge(en, clk)
       ELSE MovesBit(dat) \/ FetchesByte(dat) \/ CompletesWrite(dat)

\* The rest of the edge that fetches, once the refresh is done.
FetchTaken ==
    LET c == WithData(cmd, mem[Address(cmd)])
    IN  /\ emu.at = "fetch"
        /\ cmd' = c /\ line' = c[pos] /\ pos' = pos + 1
        /\ emu' = Idle
        /\ UNCHANGED <<lastClkVal, mem, hostVars, flashVars, netVars, guest, pram, real, disturbed>>

-----------------------------------------------------------------------------
(* The emulator's task beside the guest: rtcTick, the stores of a refresh    *)
(* and the saves.                                                            *)

rtcTick ==
    /\ emu = Idle /\ HostSet
    /\ emu' = Writing(MacTime(host, zone), "idle")
    /\ disturbed' = (disturbed \/ guest.op = "setTime")
    /\ UNCHANGED <<chipVars, mem, hostVars, flashVars, netVars, guest, pram, real>>

EmuStores ==
    /\ StoreByte(emu)
    /\ emu' = AfterStore(emu)
    /\ UNCHANGED <<chipVars, hostVars, flashVars, netVars, guest, pram, real, disturbed>>

EmuSaves ==
    /\ \/ SaveBegins("emu", emu) /\ emu' = [at |-> "saving"]
       \/ (SaveFails("emu", emu) \/ SaveEnds("emu", emu)) /\ emu' = Idle
    /\ UNCHANGED <<chipVars, mem, hostVars, netVars, guest, pram, real, disturbed>>

-----------------------------------------------------------------------------
(* The network time task: syncRtcFromNtpConfig.                              *)

\* SNTP has set the host's clock; the result is read into macTime.
SyncBegins ==
    /\ net = Idle /\ syncs < MaxSyncs
    /\ syncs' = syncs + 1
    /\ \E t \in MinHost .. MaxHost :
        /\ host' = t
        /\ macTime' = MacTime(t, ZoneOffset)
        /\ Note(MacTime(t, zone))
    /\ net' = [at |-> "zone"]
    /\ disturbed' = (disturbed \/ Busy)
    /\ UNCHANGED <<chipVars, mem, zone, flashVars, emu, guest, pram>>

\* rtcSetTimezoneOffset: the offset, then the refresh.
SyncSetsZone ==
    /\ net.at = "zone"
    /\ zone' = ZoneOffset
    /\ net' = IF HostSet THEN Writing(MacTime(host, ZoneOffset), "set") ELSE [at |-> "set"]
    /\ Note(MacTime(host, ZoneOffset))
    /\ disturbed' = (disturbed \/ Busy)
    /\ UNCHANGED <<chipVars, mem, host, flashVars, emu, macTime, syncs, guest, pram>>

\* rtcSetMacTime with the time read before.
SyncSetsTime ==
    /\ net.at = "set"
    /\ net' = Writing(macTime, "save")
    /\ UNCHANGED <<chipVars, mem, hostVars, flashVars, emu, macTime, syncs, guest, pram, real, disturbed>>

NetStores ==
    /\ StoreByte(net)
    /\ net' = AfterStore(net)
    /\ disturbed' = (disturbed \/ Busy)
    /\ UNCHANGED <<chipVars, hostVars, flashVars, emu, macTime, syncs, guest, pram, real>>

NetSaves ==
    /\ \/ SaveBegins("net", net) /\ net' = [at |-> "saving"]
       \/ (SaveFails("net", net) \/ SaveEnds("net", net)) /\ net' = Idle
    /\ UNCHANGED <<chipVars, mem, hostVars, emu, macTime, syncs, guest, pram, real, disturbed>>

SyncTask == SyncSetsZone \/ SyncSetsTime \/ NetStores \/ NetSaves

\* A second passes on the host.
HostTicks ==
    /\ HostSet /\ host < MaxHost
    /\ host' = host + 1
    /\ Note(MacTime(host', zone))
    /\ UNCHANGED <<chipVars, mem, zone, flashVars, emu, netVars, guest, pram, disturbed>>

-----------------------------------------------------------------------------
(* The guest's ROM: one access after another, its interrupts masked.  It     *)
(* takes a time for read when two readings agree, and starts over otherwise. *)

AtRest == [op |-> "rest", value |-> 0, todo |-> <<>>, n |-> 0, got |-> 0, bytes |-> <<>>]

Access(write, addr, byte) == [write |-> write, addr |-> addr, byte |-> byte]

Program(op, value, todo) ==
    [AtRest EXCEPT !.op = op, !.value = value, !.todo = todo]

ReadAll == [i \in 1 .. 2 * ClockBytes |-> Access(FALSE, (i - 1) % ClockBytes, 0)]

SetAll(t, base) == [i \in 1 .. ClockBytes |-> Access(TRUE, base + i - 1, ByteOf(t, i - 1))]

Begins(program, seen) ==
    /\ guest.todo = <<>> /\ emu = Idle
    /\ guest' = program /\ real' = seen
    /\ disturbed' = (net \notin {Idle, [at |-> "save"], [at |-> "saving"]})
    /\ UNCHANGED <<chipVars, mem, hostVars, flashVars, emu, netVars, pram>>

ReadTime ==
    Begins(Program("readTime", 0, ReadAll),
           {IF HostSet THEN MacTime(host, zone) ELSE TimeIn(mem, 0)})

SetTime ==
    \E t \in SetTimes, base \in {0, ClockBytes} :
        Begins(Program("setTime", t, SetAll(t, base)), {})

SetPram ==
    \E a \in PramUsed, v \in PramValues :
        Begins(Program("setPram", v, <<Access(TRUE, a, v)>>), {})

ReadPram ==
    \E a \in PramUsed : Begins(Program("readPram", 0, <<Access(FALSE, a, 0)>>), {})

\* Bit i of an access as the guest sends it; the line is not driven by the
\* guest while the chip answers.
Sent(access, i) ==
    IF i = 0 THEN (IF access.write THEN 0 ELSE 1)
    ELSE IF i <= AddressBits THEN (access.addr \div Pow2[AddressBits - i]) % 2
    ELSE IF i < CommandBits THEN 0
    ELSE IF access.write THEN (access.byte \div Pow2[Frame - 1 - i]) % 2
    ELSE 1

\* The guest samples the line before its next write of the port.
Sampled(bit) ==
    IF bit > CommandBits /\ ~guest.todo[1].write THEN 2 * guest.got + line ELSE guest.got

\* Select, then each bit with the clock low and high.
GuestClocks ==
    /\ guest.todo # <<>> /\ guest.n <= 2 * Frame
    /\ LET access == guest.todo[1]
           bit == (guest.n - 1) \div 2
       IN  /\ IF guest.n = 0 THEN RtcCom(0, 0, 0)
              ELSE RtcCom(0, Sent(access, bit), (guest.n + 1) % 2)
           /\ guest' = [guest EXCEPT !.n = @ + 1,
                                     !.got = IF guest.n % 2 = 1 THEN Sampled(bit) ELSE @]
    /\ UNCHANGED <<netVars, disturbed>>

\* The last bit, deselect, and what the guest makes of the answer.
GuestDeselects ==
    LET bytes == IF guest.todo[1].write THEN <<>> ELSE Append(guest.bytes, Sampled(Frame))
        done == Len(guest.todo) = 1
        half == SubSeq(bytes, 1, ClockBytes)
        answer == [i \in 0 .. ClockBytes - 1 |-> bytes[i + 1]]
    IN  /\ guest.todo # <<>> /\ guest.n = 2 * Frame + 1
        /\ RtcCom(1, 0, 1)
        /\ guest' =
             IF ~done THEN [guest EXCEPT !.todo = Tail(@), !.n = 0, !.got = 0, !.bytes = bytes]
             ELSE IF guest.op = "readTime" /\ half = SubSeq(bytes, ClockBytes + 1, 2 * ClockBytes)
                  THEN [AtRest EXCEPT !.op = "timeRead", !.value = TimeIn(answer, 0)]
             ELSE IF guest.op = "readPram"
                  THEN [AtRest EXCEPT !.op = "pramRead", !.value = bytes[1],
                                      !.bytes = <<guest.todo[1].addr>>]
             ELSE AtRest
        /\ UNCHANGED <<netVars, disturbed>>

\* The VIA's timer moves PB7 and the port is written once more as it stands.
TimerMovesPb7 ==
    /\ Pb7Driven /\ guest.todo # <<>> /\ guest.n > 0
    /\ RtcCom(0, 0, lastClkVal)
    /\ UNCHANGED <<netVars, guest, disturbed>>

-----------------------------------------------------------------------------
(* A restart at any moment: the bytes come back from flash (rtcInit), the    *)
(* host's clock may be lost.                                                 *)

Reboot ==
    /\ mem' = nvs
    /\ pos' = 0 /\ cmd' = NoBits /\ lastClkVal' = 0 /\ line' = 0
    /\ zone' = 0 /\ host' \in {0, host}
    /\ flash' = <<>> /\ unsaved' = FALSE
    /\ emu' = Idle /\ net' = Idle
    /\ guest' = AtRest /\ real' = {} /\ disturbed' = FALSE
    /\ pram' = [a \in PramUsed |-> nvs[a]]
    /\ UNCHANGED <<nvs, macTime, syncs>>

RtcInit ==
    /\ mem = [r \in Registers |-> 0] /\ nvs = mem
    /\ pos = 0 /\ cmd = NoBits /\ lastClkVal = 0 /\ line = 0
    /\ zone = 0 /\ host \in {0, MinHost}
    /\ flash = <<>> /\ unsaved = FALSE
    /\ emu = Idle /\ net = Idle /\ macTime = 0 /\ syncs = 0
    /\ guest = AtRest /\ real = {} /\ disturbed = FALSE
    /\ pram = [a \in PramUsed |-> 0]

Emulator == rtcTick \/ EmuStores \/ EmuSaves \/ FetchTaken

\* What goes on whatever the guest does with the chip.
Surroundings ==
    \/ Emulator
    \/ SyncBegins \/ SyncTask
    \/ HostTicks
    \/ Reboot
    \/ TimerMovesPb7

RtcNext ==
    \/ ReadTime \/ SetTime \/ SetPram \/ ReadPram
    \/ GuestClocks \/ GuestDeselects
    \/ Surroundings

\* The emulator's loop comes round every second, what it has begun and a
\* sync that has begun end.
Fairness ==
    /\ SF_rtcVars(rtcTick) /\ WF_rtcVars(EmuStores \/ EmuSaves \/ FetchTaken)
    /\ WF_rtcVars(SyncTask)

RtcSpec == RtcInit /\ [][RtcNext]_rtcVars /\ Fairness

-----------------------------------------------------------------------------
(* What is checked. *)

TaskStates == {"idle", "write", "fetch", "set", "zone", "save", "saving"}

RtcTypeOK ==
    /\ pos \in 0 .. Frame /\ cmd \in [Bits -> {0, 1}]
    /\ lastClkVal \in {0, 1} /\ line \in {0, 1}
    /\ mem \in [Registers -> 0 .. Base - 1] /\ nvs \in [Registers -> 0 .. Base - 1]
    /\ zone \in {0, ZoneOffset} /\ host \in Nat
    /\ emu.at \in TaskStates /\ net.at \in TaskStates
    /\ real \subseteq Times /\ unsaved \in BOOLEAN /\ disturbed \in BOOLEAN

(* A time the guest has read twice alike is one the clock has shown since it *)
(* began to read, although each of its bytes is refreshed from the host's    *)
(* clock on its own and the host's second may pass in between; for readings  *)
(* no sync falls into.                                                       *)
EqualReadsAreReal ==
    /\ RtcTypeOK
    /\ guest.op = "timeRead" /\ ~disturbed => guest.value \in real

(* A byte of parameter memory reads as what the guest last wrote, across the *)
(* bits of both accesses, the saves and the syncs in between.                *)
PramReadsBack ==
    guest.op = "pramRead" => guest.value = pram[guest.bytes[1]]

(* Parameter memory survives a restart: outside of the guest's own save, and *)
(* unless that save failed, flash holds what the guest last wrote, even  *)
(* when the time task saves its older look at the bytes meanwhile.           *)
PramIsSaved ==
    emu.at \notin {"save", "saving"} /\ ~unsaved =>
        \A a \in PramUsed : nvs[a] = pram[a]

Commit == emu = Idle /\ emu'.at = "save" /\ guest.op = "setTime" /\ Len(guest.todo) = 1

(* With its last byte a time the guest sets is in both halves of the clock,  *)
(* and in the host's clock if that can hold it, whichever half was written;  *)
(* unless a tick or a sync has put the host's time between its bytes.        *)
SetTimeCommits ==
    [][Commit => \/ disturbed
                 \/ /\ TimeIn(mem', 0) = guest.value
                    /\ TimeIn(mem', ClockBytes) = guest.value
                    /\ guest.value - Epoch - zone >= MinHost =>
                            MacTime(host', zone) = guest.value]_rtcVars

Resting == net = Idle /\ guest.op # "setTime" /\ HostSet

(* Once no sync and no setting of the time is under way and nobody restarts   *)
(* the machine, both halves of the clock come to show the host's time and     *)
(* follow it, whatever the sync's older time has left there.                  *)
ClockFollowsHost ==
    <>[]Resting /\ <>[][~Reboot]_rtcVars =>
        []<>(\A base \in {0, ClockBytes} : TimeIn(mem, base) = MacTime(host, zone))

(* As SetTimeCommits, a tick between two bytes or not; and as                *)
(* EqualReadsAreReal, with syncs: the configurations run by hand refute both.*)
SetTimeAlwaysCommits ==
    [][Commit => TimeIn(mem', 0) = guest.value]_rtcVars

EqualReadsAlwaysReal == guest.op = "timeRead" => guest.value \in real
=============================================================================
