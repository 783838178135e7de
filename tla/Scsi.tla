-------------------------------- MODULE Scsi --------------------------------
(***************************************************************************)
(* The SCSI controller (tme/ncr.c), the hard disks behind it (hd.cpp) and  *)
(* the image files and flash partition they keep (storage_backend.cpp).    *)
(* Everything runs on the emulator task: the guest's driver reads and      *)
(* writes the controller's registers, and the write of the target command  *)
(* register that ends a data-out phase or starts a data-in phase runs the  *)
(* whole disk command.                                                     *)
(*                                                                         *)
(* A unit of the command bank is a field (operation, block, length) and a  *)
(* unit of the data bank is a block: the code moves bytes of them, and     *)
(* nothing below depends on a part of a field or of a block.               *)
(***************************************************************************)
EXTENDS Integers, Sequences

CONSTANTS
    Targets,      \* SCSI IDs the guest tries
    Worlds,       \* the cards, configurations and faults examined
    Size,         \* blocks of an image
    BufBlocks,    \* SCSI_DATA_BUFFER_SIZE in blocks: 256 in the code
    EraseBlocks,  \* blocks of one flash erase unit: 8 in the code
    OffsetBlocks, \* blocks a 32-bit byte offset tells apart: 2^23 in the code
    Vals,         \* contents of a block the guest writes
    Requests,     \* the commands the guest may issue
    MaxCommands   \* bound: commands in a behaviour

Legacy == <<"hd.img", "hd.hd", "hd.dsk">>
Flash  == "flash"
Images == {"hd.img", "hd.hd", "hd.dsk", "own.img", "other.img", Flash}
Nil   == -1            \* past the end of the image
Blank  == 255           \* an erased flash block

Read6 == 8   Write6 == 10   Inquiry == 18   Capacity == 37   Read10 == 40
Write10 == 42   Ready == 0   ModeSense == 26
Good == 0   Check == 2

IsRead(op)  == op \in {Read6, Read10}
IsWrite(op) == op \in {Write6, Write10}

\* What a request asks for, in the terms of the command set: 0 is 256 blocks
\* in a six-byte command.
AskedBlocks(op, len) == IF op < 32 /\ len = 0 THEN BufBlocks ELSE len

\* A block number is 32 bits wide and its byte offset, computed in 32 bits too,
\* is that of the block modulo 2^23 (hd.cpp:125, 139, 144, 150).
At(lba) == lba % OffsetBlocks

\* An image is shorter than 2 GiB: its size is a long (storage_backend.cpp:32).
\* A write of the guest fits the buffer: behind a full one the code stores a
\* byte into memory that is not the controller's (ncr.c:240), and what that
\* breaks is not modelled.  It reaches one block past the image at most, or an
\* offset no file has: a file grows by what is written behind its end, and the
\* model keeps one block of it.
\* config: target -> configured image or ""; card: image -> "rw" or "ro", a
\* file that is not in its domain is missing; faults: what may go wrong;
\* resets: how the guest may break off a command.
ASSUME ScsiAssumption ==
    /\ Size \in Nat \ {0} /\ BufBlocks \in Nat \ {0} /\ EraseBlocks \in Nat \ {0}
    /\ OffsetBlocks \in Nat /\ 2 * Size < OffsetBlocks
    /\ Targets \subseteq 0 .. 7 /\ 0 \in Targets
    /\ Vals \subseteq Nat /\ MaxCommands \in Nat
    /\ \A r \in Requests :
        /\ r.target \in Targets /\ r.op \in 0 .. 255 /\ r.lba \in Nat /\ r.len \in Nat
        /\ r.vals \in Seq(Vals)
        /\ IsWrite(r.op) => /\ Len(r.vals) = AskedBlocks(r.op, r.len)
                            /\ Len(r.vals) <= BufBlocks
                            /\ \/ At(r.lba) + Len(r.vals) <= Size + 1
                               \/ 2 * At(r.lba) >= OffsetBlocks
    /\ \A w \in Worlds :
        /\ w.config \in [Targets -> {"", "own.img", "other.img", "hd.img"}]
        /\ DOMAIN w.card \subseteq Images \ {Flash}
        /\ \A file \in DOMAIN w.card : w.card[file] \in {"rw", "ro"}
        /\ w.mounted \in BOOLEAN /\ w.partition \in BOOLEAN
        /\ w.faults \subseteq {"io"} /\ w.resets \subseteq {"bus", "machine"}

VARIABLES
    world,    \* the world of this behaviour
    media,    \* image -> its blocks, Size of them and one past the end
    ncr,      \* the controller's registers
    bank,     \* its buffers: cmd, data and msg
    pc,       \* where the guest's driver is in its transaction
    req,      \* the command it issues: target, op, lba, len, vals
    sent,     \* units of the current phase it has moved
    got,      \* the blocks it has received
    status,   \* the status byte it has read, or Nil
    calls,    \* device calls for the current command
    commands  \* commands issued so far

driver == <<pc, req, sent, got, status, commands>>
scsiVars == <<world, media, ncr, bank, calls, driver>>
----------------------------------------------------------------------------
(* hdCreate: the configured image, then the legacy names, then the flash.  *)

Openable(w, file) == w.mounted /\ file \in DOMAIN w.card

\* The code skips a legacy name that is the configured one: it is missing too.
Candidates(w, t) == <<w.config[t]>> \o Legacy

hdCreate(w, t) ==
    LET names == Candidates(w, t)
        found == {i \in DOMAIN names : Openable(w, names[i])}
    IN  IF found # {} THEN names[CHOOSE i \in found : \A j \in found : i <= j]
        ELSE IF w.partition THEN Flash ELSE "none"

Attached(t) == world.config[t] # ""   \* only configured targets are registered
Image(t)    == hdCreate(world, t)
Writable(img) == img = Flash \/ world.card[img] = "rw"
----------------------------------------------------------------------------
(* Reading and writing the medium.  Each operator returns the set of its   *)
(* outcomes, more than one when the medium may fail.                       *)

Span(lba, len) == lba .. lba + len - 1

\* An offset of LONG_MAX at most for a file, not past the end of the partition.
Reaches(img, lba) == IF img = Flash THEN At(lba) <= Size ELSE 2 * At(lba) < OffsetBlocks

\* Mistake: a short read is taken for success.
HdReadShort(img, lba, len) ==
    IF img = "none" THEN {[ok |-> FALSE, data |-> <<>>]}
    ELSE {[ok |-> TRUE, data |-> [i \in 1 .. len |->
              IF At(lba) + i - 1 <= Size THEN media[img][At(lba) + i - 1] ELSE Nil]]}

\* A short read is a failure, whatever it has put in the buffer before.
HdRead(img, lba, len) ==
    IF img = "none" THEN {[ok |-> FALSE, data |-> <<>>]}
    ELSE LET inside == /\ Reaches(img, lba)
                       /\ \A b \in Span(At(lba), len) : b <= Size /\ media[img][b] # Nil
         IN  (IF inside
              THEN {[ok |-> TRUE, data |-> [i \in 1 .. len |-> media[img][At(lba) + i - 1]]]}
              ELSE {[ok |-> FALSE, data |-> <<>>]})
             \cup (IF "io" \in world.faults THEN {[ok |-> FALSE, data |-> <<>>]} ELSE {})

PutBlocks(blocks, lba, vals) ==
    [b \in DOMAIN blocks |->
        IF b - lba + 1 \in DOMAIN vals THEN vals[b - lba + 1] ELSE blocks[b]]

\* fwrite and fflush on a file: a failure may leave any part of it written.
WriteFile(img, lba, vals) ==
    IF ~Writable(img) \/ ~Reaches(img, lba) THEN {[ok |-> FALSE, blocks |-> media[img]]}
    ELSE {[ok |-> TRUE, blocks |-> PutBlocks(media[img], At(lba), vals)]}
         \cup {[ok |-> FALSE, blocks |-> PutBlocks(media[img], At(lba), SubSeq(vals, 1, n))] :
                   n \in IF "io" \in world.faults THEN 0 .. Len(vals) ELSE {}}

EraseUnit(lba) == {b \in 0 .. Size - 1 : b \div EraseBlocks = At(lba) \div EraseBlocks}

\* Mistake: the erase unit is not read before it is erased.
WriteFlashSectorUnread(blocks, lba, val) ==
    {[ok |-> At(lba) < Size,
      blocks |-> [b \in DOMAIN blocks |->
                      IF b = At(lba) /\ At(lba) < Size THEN val
                      ELSE IF b \in EraseUnit(lba) /\ At(lba) < Size THEN Blank ELSE blocks[b]]]}

\* One flash sector: read its erase unit, erase it, write it back changed.
WriteFlashSector(blocks, lba, val) ==
    IF At(lba) >= Size THEN {[ok |-> FALSE, blocks |-> blocks]}
    ELSE {[ok |-> TRUE, blocks |-> [blocks EXCEPT ![At(lba)] = val]]}
         \cup (IF "io" \notin world.faults THEN {}
               ELSE {[ok |-> FALSE, blocks |-> blocks],
                     [ok |-> FALSE,
                      blocks |-> [b \in DOMAIN blocks |->
                                      IF b \in EraseUnit(lba) THEN Blank ELSE blocks[b]]]})

\* The sectors one after another, up to the first failure.
WriteFlash(img, lba, vals) ==
    LET After[n \in 0 .. Len(vals)] ==
            IF n = 0 THEN {[ok |-> TRUE, blocks |-> media[img]]}
            ELSE UNION {IF o.ok THEN WriteFlashSector(o.blocks, lba + n - 1, vals[n])
                        ELSE {o} : o \in After[n - 1]}
    IN  After[Len(vals)]

HdWrite(img, lba, vals) ==
    IF img = Flash THEN WriteFlash(img, lba, vals) ELSE WriteFile(img, lba, vals)
----------------------------------------------------------------------------
(* hdScsiCmd: the disk's commands.  An outcome is the new bank, the length *)
(* the controller is told, and the image's blocks (<<>> when untouched).   *)

Answer(bk, length) == [bank |-> [bk EXCEPT !.cmd[1] = Good, !.msg[1] = 0],
                       datalen |-> length, blocks |-> <<>>, calls |-> 1]
Refuse(bk) == [bank |-> [bk EXCEPT !.cmd[1] = Check, !.msg[1] = 0],
               datalen |-> 0, blocks |-> <<>>, calls |-> 1]

\* Blocks put at the start of the data bank; what was behind them stays.
Load(bk, data) ==
    [bk EXCEPT !.data = [i \in DOMAIN bk.data |->
                             IF i \in DOMAIN data THEN data[i] ELSE bk.data[i]]]

ReadCommand(bk, img, lba, len) ==
    IF len > BufBlocks THEN {Refuse(bk)}
    ELSE {IF o.ok THEN Answer(Load(bk, o.data), len) ELSE Refuse(bk) :
              o \in HdRead(img, lba, len)}

WriteCommand(bk, img, lba, len) ==
    IF len > BufBlocks \/ img = "none" THEN {Refuse(bk)}
    ELSE {[(IF o.ok THEN Answer(bk, 0) ELSE Refuse(bk)) EXCEPT !.blocks = o.blocks] :
              o \in HdWrite(img, lba, SubSeq(bk.data, 1, len))}

\* The inquiry returns before the status and message bytes are set.
InquiryCommand(bk) ==
    {[bank |-> Load(bk, <<Inquiry>>), datalen |-> 1, blocks |-> <<>>, calls |-> 1]}

hdScsiCmd(bk, img, op, len, lba) ==
    CASE IsRead(op)     -> ReadCommand(bk, img, lba, len)
      [] IsWrite(op)    -> WriteCommand(bk, img, lba, len)
      [] op = Inquiry   -> InquiryCommand(bk)
      [] op = Capacity  -> {Answer(Load(bk, <<IF img = "none" THEN 0 ELSE Size>>), 1)}
      [] OTHER          -> {Answer(bk, 0)}

Untouched(n, bk) == [bank |-> bk, datalen |-> n.datalen, blocks |-> <<>>, calls |-> 0]

Group(op) == op \div 32

\* Mistake: a six-byte length of 0 is taken as it is.
DecodedLengthPlain(op, len) == len

\* A length of 0 means 256 blocks in a six-byte command, none in a longer one.
DecodedLength(op, len) == IF Group(op) = 0 /\ len = 0 THEN BufBlocks ELSE len

\* Decodes the command bank and calls the selected device; the groups of
\* longer commands are not decoded and reach no device.
parseScsiCmd(n, bk) ==
    LET op == bk.cmd[1]
    IN  IF Group(op) \in {0, 1, 2} /\ Attached(n.selected)
        THEN hdScsiCmd(bk, Image(n.selected), op, DecodedLength(op, bk.cmd[3]), bk.cmd[2])
        ELSE {Untouched(n, bk)}
----------------------------------------------------------------------------
(* The controller's registers.  A phase is the value of tcr; after a reset *)
(* it is 0, which is also the data-out phase.                              *)

Phases == {"dataOut", "dataIn", "command", "status", "msgIn"}
ToInitiator(phase) == phase \in {"dataIn", "status", "msgIn"}

Bank(phase) == CASE phase \in {"dataOut", "dataIn"}   -> "data"
                 [] phase \in {"command", "status"} -> "cmd"
                 [] phase = "msgIn"                 -> "msg"

ncrInit == [state |-> "idle", selected |-> 0, tcr |-> "dataOut", buf |-> "cmd",
            mode |-> {}, inicmd |-> {}, din |-> 0, dout |-> 0, bufpos |-> 0, datalen |-> 0]

bufmax(n) == Len(bank[n.buf])

\* A unit from the bank to the input latch, and one from a value to both latches
\* and the bank.  The code stores before it looks whether the bank is full: see
\* ScsiAssumption.
Fetch(n) == IF n.bufpos = bufmax(n) THEN n
            ELSE [n EXCEPT !.din = bank[n.buf][n.bufpos + 1], !.bufpos = @ + 1]
Store(n, val) ==
    /\ ncr' = [n EXCEPT !.bufpos = IF @ = bufmax(n) \/ ToInitiator(n.tcr) THEN @ ELSE @ + 1,
                        !.dout = val, !.din = val]
    /\ bank' = [bank EXCEPT ![n.buf][n.bufpos + 1] = val]

\* ncrRead of register 0: with DMA it takes the next unit first.
ReadData(n, dack) ==
    IF "DMA" \in n.mode /\ dack /\ ToInitiator(n.tcr) THEN Fetch(n) ELSE n

\* ncrRead of register 1: arbitration is done by the time it is looked at.
ReadInitiatorCommand(n) ==
    IF n.state = "arb" /\ Attached(n.selected) THEN [n EXCEPT !.state = "arbdone"] ELSE n

\* ncrRead of register 4: the busy bit.
Busy(n) == "BSY" \in n.inicmd \/ n.state = "arb" \/ (n.state = "seldone" /\ Attached(n.selected))

\* ncrWrite of register 1, in the order of its tests.
BusState(n, val) ==
    LET n1 == IF {"SEL", "DBUS", "BSY"} \subseteq val /\ n.state \in {"arb", "arbdone"}
              THEN [n EXCEPT !.state = "select",
                             !.selected = IF n.dout \in Targets THEN n.dout ELSE @]
              ELSE n
        n2 == IF "BSY" \notin val /\ n1.state = "select"
              THEN [n1 EXCEPT !.state = "seldone"] ELSE n1
    IN  IF "SEL" \notin val /\ n2.state = "seldone"
        THEN [n2 EXCEPT !.state = IF Attached(n2.selected) THEN "data" ELSE "idle"] ELSE n2

Acks(n, val)   == n.state = "data" /\ "ACK" \notin n.inicmd /\ "ACK" \in val
Unacks(n, val) == n.state = "data" /\ "ACK" \in n.inicmd /\ "ACK" \notin val

WriteInitiatorCommand(val) ==
    LET n == BusState(ncr, val)
        moved == IF Unacks(n, val) /\ ToInitiator(n.tcr) THEN Fetch(n)
                 ELSE IF Acks(n, val) /\ ~ToInitiator(n.tcr) /\ n.bufpos # bufmax(n)
                      THEN [n EXCEPT !.bufpos = @ + 1] ELSE n
    IN  /\ ncr' = [moved EXCEPT !.inicmd = val,
                                !.state = IF "RST" \in val THEN "idle" ELSE @]
        /\ bank' = IF Acks(n, val) /\ ~ToInitiator(n.tcr) /\ n.bufpos # bufmax(n)
                   THEN [bank EXCEPT ![n.buf][n.bufpos + 1] = n.dout] ELSE bank

\* ncrWrite of register 2.
WriteMode(n, val) ==
    [n EXCEPT !.mode = val,
              !.state = IF "ARB" \in val THEN "arb" ELSE IF @ = "arb" THEN "idle" ELSE @]

\* Mistake: leaving the data-out phase always runs what is in the bank.
RunsEmpty(n, phase) == \/ n.tcr = "dataOut"
                       \/ n.tcr = "command" /\ phase = "dataIn"

\* ncrWrite of register 3: a change of phase may run the command; it always
\* starts the new phase at the first byte of its bank.
Runs(n, phase) == \/ n.tcr = "dataOut" /\ n.bufpos # 0
                  \/ n.tcr = "command" /\ phase = "dataIn"

PhaseOutcomes(phase) == IF Runs(ncr, phase) THEN parseScsiCmd(ncr, bank)
                        ELSE {Untouched(ncr, bank)}

WriteTargetCommand(phase) ==
    IF phase = ncr.tcr THEN UNCHANGED <<ncr, bank, media, calls>>
    ELSE \E o \in PhaseOutcomes(phase) :
            /\ bank' = o.bank
            /\ ncr' = [ncr EXCEPT !.tcr = phase, !.bufpos = 0, !.buf = Bank(phase),
                                  !.datalen = IF Bank(phase) = "data" THEN o.datalen ELSE 1,
                                  !.din = o.bank[Bank(phase)][1]]
            /\ media' = IF o.blocks = <<>> THEN media
                        ELSE [media EXCEPT ![Image(ncr.selected)] = o.blocks]
            /\ calls' = calls + o.calls
----------------------------------------------------------------------------
(* The guest's driver (external): the transaction of the Macintosh's SCSI  *)
(* Manager, one register access per step.  Command, status and message     *)
(* bytes go by the REQ/ACK handshake, data by pseudo-DMA.                  *)

ScsiInit ==
    /\ world \in Worlds
    /\ media = [img \in Images |-> [b \in 0 .. Size |-> IF b = Size THEN Nil ELSE 0]]
    /\ ncr = ncrInit
    /\ bank = [cmd |-> <<0, 0, 0, 0>>, data |-> [i \in 1 .. BufBlocks |-> 0], msg |-> <<0>>]
    /\ pc = "free" /\ req \in Requests /\ sent = 0 /\ got = <<>> /\ status = Nil
    /\ calls = 0 /\ commands = 0

Goto(from, to) == pc = from /\ pc' = to
Reg(n) == ncr' = n /\ UNCHANGED <<bank, media, calls>>

Asked == AskedBlocks(req.op, req.len)
DataPhase == CASE IsRead(req.op) \/ req.op \in {Inquiry, Capacity, ModeSense} -> "dataIn"
               [] IsWrite(req.op) /\ Asked # 0 -> "dataOut"
               [] OTHER -> "status"
DataUnits == IF IsRead(req.op) \/ IsWrite(req.op) THEN Asked ELSE 1

Arbitrate ==
    /\ Goto("free", "arb") /\ commands < MaxCommands
    /\ req' \in Requests /\ commands' = commands + 1
    /\ sent' = 0 /\ got' = <<>> /\ status' = Nil /\ calls' = 0
    /\ ncr' = WriteMode(ncr, {"ARB"})
    /\ UNCHANGED <<world, media, bank>>

Step(from, to) == Goto(from, to) /\ UNCHANGED <<world, req, sent, got, status, commands>>

SeeArbitration == Step("arb", "won") /\ Reg(ReadInitiatorCommand(ncr))
PutTarget == Step("won", "target") /\ Reg([ncr EXCEPT !.dout = req.target, !.din = req.target])
Select    == Step("target", "select") /\ WriteInitiatorCommand({"SEL", "DBUS", "BSY"})
                /\ UNCHANGED <<media, calls>>
DropArb   == Step("select", "busy") /\ Reg(WriteMode(ncr, {}))
DropBusy  == Step("busy", "poll") /\ WriteInitiatorCommand({"SEL", "DBUS"})
                /\ UNCHANGED <<media, calls>>
SeeTarget == Step("poll", IF Busy(ncr) THEN "found" ELSE "absent") /\ Reg(ncr)
GiveUp    == Step("absent", "free") /\ WriteInitiatorCommand({}) /\ UNCHANGED <<media, calls>>
Found     == Step("found", "toCommand") /\ WriteInitiatorCommand({}) /\ UNCHANGED <<media, calls>>

StartCommand == Step("toCommand", "command") /\ WriteTargetCommand("command")

\* A byte out: the latch, the acknowledge, and its release.
Field(i) == CASE i = 1 -> req.op [] i = 2 -> req.lba [] i = 3 -> req.len
PutField ==
    /\ Step("command", "cmdAck") /\ sent < 3
    /\ Reg([ncr EXCEPT !.dout = Field(sent + 1), !.din = Field(sent + 1)])
AckField ==
    /\ Step("cmdAck", "cmdUnack")
    /\ WriteInitiatorCommand({"DBUS", "ACK"}) /\ UNCHANGED <<media, calls>>
UnackField ==
    /\ Goto("cmdUnack", "command") /\ sent' = sent + 1
    /\ WriteInitiatorCommand({"DBUS"})
    /\ UNCHANGED <<world, media, calls, req, got, status, commands>>

EndCommand ==
    /\ Goto("command", IF DataPhase = "status" THEN "status" ELSE DataPhase)
    /\ sent = 3 /\ sent' = 0
    /\ WriteTargetCommand(DataPhase)
    /\ UNCHANGED <<world, req, got, status, commands>>

\* Pseudo-DMA: the mode bit once, then a unit per access.
SetDma == pc \in {"dataIn", "dataOut"} /\ Step(pc, IF pc = "dataIn" THEN "dmaIn" ELSE "dmaOut")
            /\ Reg(WriteMode(ncr, {"DMA"}))
DmaRead ==
    /\ pc = "dmaIn" /\ sent < DataUnits
    /\ sent' = sent + 1
    /\ ncr' = ReadData(ncr, TRUE) /\ got' = Append(got, ReadData(ncr, TRUE).din)
    /\ UNCHANGED <<world, media, bank, calls, pc, req, status, commands>>
DmaWrite ==
    /\ pc = "dmaOut" /\ sent < DataUnits
    /\ sent' = sent + 1
    /\ Store(ncr, req.vals[sent + 1])
    /\ UNCHANGED <<world, media, calls, pc, req, got, status, commands>>
ClearDma ==
    /\ pc \in {"dmaIn", "dmaOut"} /\ sent = DataUnits
    /\ Step(pc, "toStatus") /\ Reg(WriteMode(ncr, {}))

ToStatus == Step("toStatus", "status") /\ WriteTargetCommand("status")
SeeStatus ==
    /\ Goto("status", "statusAck") /\ status' = ReadData(ncr, FALSE).din
    /\ Reg(ncr) /\ UNCHANGED <<world, req, sent, got, commands>>
AckStatus == Step("statusAck", "statusUnack") /\ WriteInitiatorCommand({"ACK"})
                /\ UNCHANGED <<media, calls>>
UnackStatus == Step("statusUnack", "toMessage") /\ WriteInitiatorCommand({})
                /\ UNCHANGED <<media, calls>>
ToMessage == Step("toMessage", "message") /\ WriteTargetCommand("msgIn")
AckMessage == Step("message", "msgUnack") /\ WriteInitiatorCommand({"ACK"})
                /\ UNCHANGED <<media, calls>>
UnackMessage == Step("msgUnack", "done") /\ WriteInitiatorCommand({})
                /\ UNCHANGED <<media, calls>>

\* Some drivers clear the target command register after the last phase.
Finish == Step("done", "free") /\ (Reg(ncr) \/ WriteTargetCommand("dataOut"))

\* The bus reset: the register is raised and dropped; the phase and the
\* position in the bank stay as they are.
BusReset ==
    /\ "bus" \in world.resets /\ pc \notin {"free", "reset"}
    /\ Step(pc, "reset") /\ WriteInitiatorCommand({"RST"}) /\ UNCHANGED <<media, calls>>
EndReset == Step("reset", "free") /\ WriteInitiatorCommand({}) /\ UNCHANGED <<media, calls>>

\* The RESET instruction: ncrInit; the data buffer keeps its contents.
MachineReset ==
    /\ "machine" \in world.resets /\ pc # "free"
    /\ Step(pc, "free")
    /\ ncr' = ncrInit /\ bank' = [bank EXCEPT !.cmd = <<0, 0, 0, 0>>, !.msg = <<0>>]
    /\ UNCHANGED <<media, calls>>

ScsiNext ==
    \/ Arbitrate \/ SeeArbitration \/ PutTarget \/ Select \/ DropArb \/ DropBusy
    \/ SeeTarget \/ GiveUp \/ Found \/ StartCommand \/ PutField \/ AckField \/ UnackField
    \/ EndCommand \/ SetDma \/ DmaRead \/ DmaWrite \/ ClearDma \/ ToStatus \/ SeeStatus
    \/ AckStatus \/ UnackStatus \/ ToMessage \/ AckMessage \/ UnackMessage \/ Finish
    \/ BusReset \/ EndReset \/ MachineReset

ScsiSpec == ScsiInit /\ [][ScsiNext]_scsiVars
----------------------------------------------------------------------------
Blocks == 0 .. Size

(* The registers, buffers and media keep their types through every command *)
(* and reset (the struct Ncr and the buffers of ncr.h); a guest whose      *)
(* writes fit the buffer stores nothing behind it (ncr.c:240).             *)
ScsiTypeOK ==
    /\ ncr.state \in {"idle", "arb", "arbdone", "select", "seldone", "data"}
    /\ ncr.selected \in Targets /\ ncr.tcr \in Phases
    /\ ncr.bufpos \in 0 .. bufmax(ncr)
    /\ ncr.din # Nil
    /\ "bus" \notin world.resets /\ pc = "dmaOut" /\ sent < DataUnits => ncr.bufpos < bufmax(ncr)
    /\ Len(bank.data) = BufBlocks /\ Len(bank.cmd) = 4 /\ Len(bank.msg) = 1
    /\ \A img \in Images : media[img] \in [Blocks -> Nat \cup {Nil}]

\* The guest breaks no command off with a bus reset.
Unbroken == "bus" \notin world.resets

\* The block is below 4 GiB.  One behind it is another block to the disk, which
\* the wrap of the offset moves instead and answers for with GOOD.
Addressable == req.lba < OffsetBlocks

(* A read or write that the guest sees end with status GOOD has been done: *)
(* the blocks it received are those of the medium, the blocks it sent are  *)
(* on it (hd.cpp:200 and 219: a failure of the backend becomes CHECK       *)
(* CONDITION), whatever fails and whenever the machine is reset, if the    *)
(* block is one whose byte offset 32 bits hold.                            *)
GoodMeansDone ==
    /\ ScsiTypeOK
    /\ Unbroken /\ Addressable /\ status = Good /\ (IsRead(req.op) \/ IsWrite(req.op)) =>
          /\ IsRead(req.op) => Len(got) = Asked
          /\ \A i \in 1 .. Asked :
                media[Image(req.target)][req.lba + i - 1] =
                    IF IsRead(req.op) THEN got[i] ELSE req.vals[i]

(* A block changes only by a write command sent in full, to the target's   *)
(* own image and to what the guest sent; a neighbour in the flash's erase  *)
(* unit is lost only when the flash failed, and CHECK CONDITION says so.   *)
(* Again for blocks below 4 GiB only.                                      *)
WritesAsAsked ==
    [][Unbroken /\ Addressable => \A img \in Images, b \in Blocks :
        media'[img][b] # media[img][b] =>
            /\ IsWrite(req.op) /\ sent = Asked /\ img = Image(req.target)
            /\ \/ /\ b \in Span(req.lba, Asked)
                  /\ media'[img][b] = req.vals[b - req.lba + 1]
               \/ img = Flash /\ media'[img][b] = Blank /\ ncr'.din = Check]_scsiVars

(* When the guest reads the status of a command with a data phase, the     *)
(* disk has run that command exactly once: no phase change runs it again   *)
(* or leaves it out.                                                       *)
ExecutedOnce ==
    Unbroken /\ status # Nil /\ DataPhase # "status" => calls = 1

(* The status the guest reads of a command with a data phase is one the    *)
(* disk has set: GOOD or CHECK CONDITION (hd.cpp:182).                     *)
StatusIsResult ==
    Unbroken /\ status # Nil /\ DataPhase # "status" => status \in {Good, Check}
=============================================================================
