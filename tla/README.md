# Verification of the ESP32 Macintosh Plus

These modules model the concurrent and the stateful parts of the firmware in
`src/`: a Macintosh Plus emulator on an ESP32-S3, with its 68000, its
guest-visible chips (VIA, SCC, SCSI, clock, paravirtual floppies), the two sound backends, the input path
from a browser, the settings file, the screen and the hand-over of the SD card
to a PC. TLC checks each module on small instances; TLAPS proves most of the safety
properties for every value of the constants.

`PROJECT.json` lists the components, the runs, the hazards each property is
for, the theorems, and for every definition the source lines it translates.
Below, paths without `src/src/` in front are relative to it.

## 1. The system

### Who runs when

| task or interrupt | core | what it does |
|---|---|---|
| emulator task (`tme/emu.c`) | 1 | the 68000 in slices of scanlines; all guest-visible chips; the sound's producer; floppy requests and screen switches between frames |
| sound interrupt (`snd.cpp` timer, or `snd_rmt.cpp` encoder callback) | 0 | plays samples or symbols |
| NimBLE host task (`ble_input.cpp`) | 0 | key edges and mouse motion |
| web server, one task (`http_server.cpp`) | 0 | settings page, filer, uploads, console commands |
| serial shell, storage menu | 0 | console commands; image selection |
| network time task (`net_time.cpp`) | 0 | sets the host's clock and the guest's clock bytes after a sync |
| `console_render`, `boot_btn` (`disp.cpp`) | 0 | draws the console; the BOOT button |
| TinyUSB task, `usb_restart` (`storage_usb.cpp`) | any | USB events; the reboot after an eject |

They share plain or volatile variables, a few spinlocks (`s_inputMux`,
`consoleMux`, `modeMux`, the name locks of `pv_fdd.cpp`), one mutex
(`surfaceMutex`), one FreeRTOS queue (`gImageRequests`) and task notifications.

### Components, their state, and what makes them correct

| component | state | operations | correct when |
|---|---|---|---|
| RMT sound | ring of symbol chunks with atomic state bytes, published indexes, head and tail counters | render, publish, wait; encode callback; mute | a chunk has one owner, no index is overwritten, no wakeup lost, each symbol is played once and in order |
| PWM sound | ring of samples, head, tail, a "space signalled" flag, a duty cached | write frame, alarm, mute | FIFO across the wrap, a waiting producer is woken, muted means silent |
| Frame loop and renderers | scanline, cycle overrun, E-clock remainder, list of gate events | slice, port B write, timer 1's edge, RESET, frame end; PWM sample, RMT symbols of a frame | the timeline neither drifts nor jumps; the wave played is the wave the guest's writes describe |
| VIA and keyboard | timers, IFR, IER, ACR, PCR, shift register phase, pending inquiry | register access, step, control lines | line = flags and enables; slices equal single cycles but for where a one-shot timer stops; the keyboard never stalls |
| Host keys | 128 key states, ring of 32 edges | press, release, release all, take | bounded queue in order; the guest agrees with the client once edges are through |
| Mouse and SCC | motion, quadrature phase, DCD latches, interrupt enables | motion, tick, SCC registers | no motion lost or invented; a pending source keeps the level |
| SCSI, hard disk, backends | bus phase, command and data banks, images, flash | register writes, disk commands, faults | GOOD means done; each command runs once; nothing else is written |
| Floppy drives | open file, shown name, media state, guest status byte per drive; request queue | open, prime, eject, live mount, filer | what is shown is what is mounted; a volume keeps its image; insertions are reported |
| USB storage mode | card owner, driver, flags, restart task | the `storage` command, USB events | one set-up at a time; an eject reboots |
| Settings | `setting.txt`, `.tmp`, `.bak`, the page's copy | save, form, boot | a save changes one value or none; nothing is lost |
| Screen: display and VMU | console text and marks, three surfaces, the front buffer, MMU pointers, two mode variables | print, show, draw, switch | no surface lost or drawn over; the screen shows what was asked for last |
| Clock and PRAM | the bits of the access under way, 32 bytes, their copy in flash, the host's clock | clock edges, the tick, a sync, saves | a time read was the time, a byte written is read back and survives a restart |
| 68000 core | registers, flags, stacks, interrupt lines and level, memory | one action per handler, the devices' interrupts | programs compute what their instructions say at every width, whenever they are interrupted; a user's program stays one; no interrupt is lost |
| Memory map, console log, emulator monitor | see the plan | | not modelled yet |

Components left out for good: the QR encoder (third party), board drivers and
panel set-up (register I/O), the IWM stub (constants), `main.cpp` (a straight
sequence before the tasks exist). Of the 68000 core (Musashi), the generator of
the handlers and the tables that find a handler by its opcode are left out.

### What is hard here

- Lock-free rings between cores (`snd_rmt.cpp`, `snd.cpp`): publication in
  several stores, wakeups, the counters' wrap, and mutes that move the
  consumer's index from other tasks.
- Flags tested and set without a lock by three consoles (`storage_usb.cpp`,
  `sndSetEnabled`, the settings file, `dispMode` and the pending mode).
- Protocols with a guest: the shift register's two directions, SCSI phases,
  DCD edges, floppy insertions, RESET at any point.
- Partial failures: the five steps of a save, the calls of the USB set-up,
  flash erase units, images that cannot be opened.
- Two tasks at the clock's bytes while the guest reads or sets them bit by bit.
- The 68000's flags: kept in the core's own encodings (N is bit 7 whatever the
  width, Z is a value that is zero), they are the carry of one instruction
  and the condition of another; faults, traps and interrupts of two devices
  that share one line to the processor.
- Arithmetic on one timeline: slices overrun, edges fall in the part carried
  on, cycles become ticks by two roundings.

## 2. The modules

An arrow reads "extends".

    RmtRing <- MCRmtRing (refines SymbolQueue)      SoundRender <- Frame <- MCSound
    RmtRing <- RmtPause                             Pwm <- MCSound
    HostKeyRing (refines HostKeys)                  Settings <- MCSettings
    HostKeyRing <- Via <- Keyboard <- MCKeyboard    Scsi <- MCScsi
    Mouse <- MCMouse                                Display <- MCDisplay
    Rtc <- MCRtc                                    StorageUsb, PvFdd
    M68kArith <- M68kCpu <- M68kAlu <- M68k <- MCM68k
    M68kBits <- M68kCpu

    RmtRing <- RmtRingProofs                        Keyboard <- KeyboardProofs
    StorageUsb <- StorageUsbProofs                  Mouse, Scsi <- DeviceProofs
    PvFdd <- PvFddProofs                            Frame, Pwm <- SoundProofs
    M68kArith, Rtc <- RtcM68kProofs                 Settings, Display <- SettingsDisplayProofs

Conventions. Actions have the code's names where they stand for a function;
where another task or an interrupt can come between two accesses, a function
is several actions and a variable (`pc`, `emu`, `isr`, `at`, `web`, ...) says
where it is. Code that is not in the repository (the guest's ROM and drivers,
the FAT file system, FreeRTOS, the RMT driver, the PC) is modelled from how the
code uses it and is marked external. A definition whose comment starts
with `Mistake:` is not part of the model: it is the mapped definition next to
it with a bug put in, kept to show that a property fails without the code it
is about (`PROJECT.json`, "mutants").

### RmtRing, SymbolQueue, RmtRingProofs, MCRmtRing

`RmtRing` has one action per load or store of `snd_rmt.cpp` that the other
side can see. The producer (`Producer`) flushes a symbol (`WriteSymbol`),
claims a FREE chunk by compare-and-exchange (`AcquireChunk`, `NoneFree`,
`TakeNotification`, `WaitTimeout`), and publishes a full one in three stores
(`MarkReady`, `QueueIndex`, `AdvanceHead`) before it may start the
transmission (`CheckStart`, `StartStream`). The callback (`Encode`) selects,
activates, copies, frees and notifies. `chunkState`, `pendingIndex`, `head`,
`tail`, `writer`, `streamChunk`, `streamOffset` are the code's variables.
A symbol is its running number, so "played once, in order" is visible.
`SymbolQueue` is the abstract bounded queue; `MCRmtRing` gives the mapping
(the queue is what the callback has still to copy of its chunk, then the
published chunks, then what the writer holds; `SymbolAt` says where each
position is stored).

### RmtPause

`RmtRing` with `sndSetEnabled` and `audioRmtSetEnabled` called by the
emulator task at the top of each frame and by the console shell, one access at
a time. It has no listed run: section 5 says what its configurations show.

### Pwm

The other backend: `audioWritePwmFrame` (look for room, re-arm, look again,
wait), `audioRingWriteFrame`, `audioTimerAlarm` (read, advance, set the duty,
signal), and mutes from both tasks. `fifo` is the list of the samples
submitted and not played; `raced` records that two agents have moved the tail
at once, from when on `fifo` is not kept.

### Frame, SoundRender, SoundProofs, MCSound

`SoundRender` has the pure functions: a scanline's PWM sample under the gate,
and a frame's RMT runs, pieces and symbols. A loop of the code is a recursive
function of its rounds (`EnabledHighCycles`, `AppendPieces`, `LineTicks`,
`RenderSegments`, `RenderLines`), and the cursor over the gate events, which both
renderers move on from line to line, is the function `EventIndex` of the line: `Parts`
and `Segment` say where a line is cut. The writer is what the RMT backend keeps
between runs, the symbols written and the one pending; what is pending at the end of a
frame is half a symbol or nothing, and the next frame goes on with it. `Frame` is `tmeStartEmu`'s loop:
instructions of any length up to `MaxInstr` within a slice, the overrun carried
to the next slice, the E clock and its remainder, port B writes that record a
gate event at their cycle, and the frame's end. Two things move the gate elsewhere: an
edge of timer 1 on PB7 at the end of a slice, recorded when `surpassCycles` is already
that of the slice that has ended and the line not yet the next one (`TimerEdge`, part of
`EndSlice`), and a RESET, which closes it without an event and forgets the overrun that
the slice's request has taken off (`Reset`). `overrun` is what was taken off, and
`disturbed` says that the frame has had one of the two. Its other ghost variables hold the
true wave, cycle by cycle, which the rendered one is compared with. `MCSound`
runs `Frame` and `Pwm` in one model, a behaviour following one of them: they
meet in nothing but the number of samples of a frame.

### HostKeys, HostKeyRing, Via, Keyboard, KeyboardProofs, MCKeyboard

`HostKeyRing` is the circular buffer with its wrapped indexes and the cutting
out of an event when a release meets a full queue; `HostKeys` is the bounded
queue it implements. `Via` adds the 6522 with register reads and writes as
actions, `ViaStep` for the cycles of a slice, `ControlWrite` for CA1 and CA2,
and the keyboard's phases behind the shift register. `Keyboard` adds a guest
that polls as the ROM does (mode 7, a command, the flag, mode 3, the flag, the
answer; Instant after a keypad prefix) and the BLE client's edges. In
`MCKeyboard` the guest of a behaviour is that one, or one that uses a set of
register groups in any order without that discipline.

### Mouse, DeviceProofs, MCMouse

BLE motion, `mouseTick`'s quadrature, DCD of the two SCC channels, the SCC's
interrupt logic, and the guest's level-2 handler, which counts.

### StorageUsb, StorageUsbProofs

`storageUsbStartMassStorageMode` step by step for each caller, every call it
makes that may fail, the emulator task's frames, TinyUSB's events, the PC, and
the restart task. `hostOwner` is the SDMMC driver's own state (external),
which refuses a second initialisation.

### PvFdd, PvFddProofs

The driver's Open, Prime, Control and accRun, `openImage` and an eject in their two
parts (the file and the media state, then the name the other tasks see and the guest's
status; `changing` is the drive in between), the request queue, the settings
page's check and request, the menu's requests, and the web filer's check and
operation. A name is a file and a spelling.

### Scsi, DeviceProofs, MCScsi

A guest that issues one command after another through the NCR's registers:
selection, command bytes, data in or out, status; `ncrWrite`'s change of phase
runs the disk command. Backends: an SD image (read-write or read-only) or the
flash with its erase units; reads and writes may fail; the machine or the bus
may be reset at any point. A block and a command field are one unit each. The byte offset
of a block is 32 bits wide in the code, so a block number counts modulo 2^23 (`At`,
`OffsetBlocks`), and an offset over `LONG_MAX` is refused by a file (`Reaches`). A
file grows by what is written behind its end; the model keeps one block of that, and
the guest's writes are bounded by it. They also fit the transfer buffer
(`ScsiAssumption`): the code stores a byte before it looks whether the buffer is full,
and what a longer write would overwrite is not modelled.

### Settings, SettingsDisplayProofs, MCSettings

`saveSettingValue` call by call (fopen, copy, fclose, remove, two renames, the
way back), the form posted by the settings page as a list of saves, the menu's
and the shell's saves, a power loss and the boot that follows. A value is abstracted to
what becomes of it: `Cut` is what a field of `AppSettings` holds of it, `Read` what the
loader makes of it (trimmed, without a comment, cut), `Rest` what it reads from the
rest of a line over 159 characters. The page keeps the form's value cut and not read
(`Held`), and connecting may join another network of the Wi-Fi list, whose ssid and
password are saved and put in the page whatever the saves return (`Connected`, `Join`); at
a boot the page is then given the loaded settings once more.

### Display, MCDisplay

`disp.cpp` and `tme/vmu.c`. The console's text is abstracted to the rows in
which a picture of it is stale; a picture of a page of the Macintosh to whether
it has all that the guest wrote. The render task looks, takes the lock, looks
again, takes the marks with a snapshot, draws. The emulator task applies a
pending mode at the end of a frame: lock, draw off screen if the console comes
in, save the outgoing surface, load the incoming, move the MMU's pointers. The
guest selects its page (PA6) in the middle of a frame, without the lock.
Callers print, write rows, clear, show the console, the Macintosh or a QR code.

### Rtc, MCRtc

`rtcCom` is one action per clock edge, split by what the edge does: move a bit,
fetch a byte (for the clock's registers after a refresh from the host's clock),
complete a write. The clock's bytes are stored one at a time by the emulator
task (`rtcTick`, the refresh) and by the network time task (`syncRtcFromNtpConfig`:
read the time, set the zone, refresh, store the time read before), and saved
whole in flash by either. The guest's ROM (external) sends its accesses bit by
bit, and takes a time for read when two readings agree. Seconds pass, syncs
come, saves fail and the machine restarts at any step. `MCRtc` gives a
behaviour one of the chip's services: reading the time, setting it, or
parameter memory; the theorems are about `RtcSpec`, where the guest uses all of them
in any order and everything else comes at any step.

### M68kArith, M68kBits, M68kCpu, M68kAlu, M68k, MCM68k

`M68kArith` is the arithmetic and its flags as `m68kcpu.h`'s macros define them,
`M68kBits` the operations on bits, shifts, rotates and decimal digits.
`M68kCpu` is the processor's state (`cpu`: data and address registers, the
other stack pointer, flags, mask, memory, the two devices' requests and the
level presented), operands and their addressing modes, exceptions, the stack
frame and interrupts, and what a guest's write to a device does: it raises or
withdraws the device's interrupt at once, in the middle of the instruction. `M68kAlu`
and `M68k` have one action per instruction and width: 212 for the handlers of
`m68kopac.c`, `m68kopdm.c` and `m68kopnz.c` that a 68000 reaches. The handlers
of a family are generated copies that differ in an operand's mode, so one
action stands for all of them, with the mode in the instruction.
Between any two instructions a device may raise its interrupt
(`ViaRaises`, `SccRaises`), and `ViaStep` presents the VIA's again at the end of a
slice, as `viaStep` does.

Abstracted: a program is a sequence of instruction records beside the memory,
so an instruction is neither fetched nor decoded and is one step of the
program counter long. A byte has `ByteBits` bits, two decimal digits to the base
`Ten` in a half byte of `Base` values; words and longs are two and four bytes as
ever. The memory repeats over the address space. `ROL.L` by 32 takes its carry
from a shift of 32 bits by 32, which C leaves undefined: in the model the carry
is the bit that went round or none.

`MCM68k` holds 39 guest programs that between them run every action, handlers
for the vectors and the two devices, and, for each program, what it must have
computed when it halts, said in numbers and bit patterns and not in the
instructions' terms.

## 3. The runs

| run | bounds | what it shows |
|---|---|---|
| `rmt_ring` | 3 chunks of 2 symbols, 2 DMA nodes, requests of 1..3 symbols, counters 0..5, 8 symbol names, the transmission may be refused | `ChunkOwnership`, `NoIndexOverwritten`, `NoLostWakeup`; the ring implements `SymbolQueue` (`ImplementsQueue`); `QueueDrains` |
| `keyboard` | timers of base 2, slices of 1, 3 and 5 cycles, a main and a keypad key, 2 queued edges, a client that never overflows the queue and one that may, five guests, the commands Inquiry and Test, and Instant from the guest that polls | `GuestAgrees`, `EachEdgeOnce`, `ImplementsHostKeys`, `GuestCatchesUp`, `PollingGoesOn`; for guests that use the registers freely `IrqMatchesFlags`, and `SlicesAreExact`, which says of a one-shot timer 1 that it stops where the slice ends |
| `mouse` | motion within 3 steps of the start, guests in time or late, with or without a forced reset | `IrqPresented`, `MotionExact` |
| `storage_usb` | 3 callers, any of the calls may fail | `SetUpOnce`, `EjectRebootsUnlessLate` |
| `fdd` | 2 drives, 2 images, a queue of 2 | `DriveShowsImage`, `VolumeMatches`, `InsertReported` |
| `scsi` | 2 IDs, five cards and configurations, images of 2 blocks, a buffer of 2, offsets of 8 blocks, 2 commands | `ExecutedOnce`; `GoodMeansDone` and `WritesAsAsked`, for blocks whose byte offset fits |
| `settings` | 3 keys, 2 values (in one world two that are read differently, in one a network to join), 3 requests, one failing call in each save (two in one world), power losses, one task at a time | `SaveIsExact`, `WholeAtAnyMoment`; `PageMatchesFile`, for values read as they were entered and keys of no network just joined |
| `settings_race` (violation) | 2 tasks at once | `ChoicesKept` fails: see section 5 |
| `sound` | 3 lines of 3 cycles, slices ending at 1 and 3, instructions of 1..2 cycles, 3 events, samples of 3 levels that alternate between the lines, sound on and off, 3 ticks per 2 cycles, runs of up to 3 ticks, any half symbol left by the frame before; frames of 2 samples in a ring of 5, 10 values | `TimelineKept`; `RenderedExactly`, for frames without an edge of timer 1 and without a RESET; `RingIsFifo`, `WaiterIsWoken` |
| `display` | 2 log rows and the status row, 2 columns, one caller, the emulator stopped and run at any time | `SurfacesKept`, `ScreenFollows` |
| `rtc` | a clock of 2 bytes of 2 bits, commands of 4 bits, host times up to 3, one parameter byte, one sync, saves that may fail | `EqualReadsAreReal`, `PramReadsBack`, `PramIsSaved`, `SetTimeCommits`, `ClockFollowsHost` |
| `m68k` | bytes of 6 bits, 104 bytes of memory, 39 programs over 64 pairs of operands, one interrupt or, in programs about interrupts, two | `ProgramsCompute`, `PrivilegeKept`, `InterruptsAnswered` |

The type invariants of `Mouse`, `Scsi`, `Settings`, `PvFdd`, `Keyboard`, `Rtc`
and the 68000 are the first conjunct of `IrqPresented`, `GoodMeansDone`,
`WholeAtAnyMoment`, `DriveShowsImage`, `GuestAgrees`, `EqualReadsAreReal` and
`ProgramsCompute`; that of `RmtRing` is a theorem.

Why the bounds are enough to meet the interesting cases:

- `rmt_ring`: three chunks allow one being filled, one queued and one played,
  the fourth is refused, so the producer waits; requests of 1 and 3 cross a
  chunk's border and stop inside it; six numbers over three slots wrap the
  index ring twice. Slots follow each other as in the firmware as long as its
  counters do not wrap, which the modulus 6 of 3 keeps.
- `sound`: two frames fill the ring, the write of the third wraps within a frame.
  An instruction can span a slice's end and a frame's; the third event
  fills the list; 3/2 ticks per cycle leave half a tick to carry from each line, and
  a run of 14 ticks is cut at 3, as is one that goes on with a slot carried from the
  frame before.
- `keyboard`: a slice of 5 cycles is one more than the longest period of a timer
  (4); two edges fill the queue, a press and a release of one key
  and of two keys included.
- `scsi`: length 0 of the six-byte commands is the whole buffer; block 2 is
  the first that does not exist, block 8 is block 0 to the disk, and the offset of
  block 5 is over what a file has; one erase unit holds both blocks.
- `fdd`: two drives compete in accRun; a request may be for the other drive's
  image and for one that has been deleted meanwhile, and the web server and the menu
  may look between the two steps of an eject.
- `storage_usb`: with three callers one may set up, one be refused and one come
  later.
- `settings`: a form is three saves, and a call of each may fail. `Sound` leaves out
  two worlds that run too: a save that cannot open the old file, and one in which
  both the new file and the backup fail to get their name. Of the odd values one loses
  its end to the loader and one is read as two lines; `PageMatchesFile` leaves them out,
  and the other two properties do not.
- `display`: lines of one and of three characters end short of and past
  a row; two log rows are the fewest that scroll.
- `rtc`: two bytes are the fewest that can be torn, and a carry from the lower to
  the higher comes at the second tick; a command still has a flag, an address
  and a spare bit; the parameter byte is at the first address after the clock.
- `m68k`: the operands are zero, one, values around the sign of a byte, of a
  word and of a long, and the largest; with 6-bit bytes TLC's integers hold the
  product of two words and twice a long. Every operand mode, width
  and condition is in some program. Interrupts come between any two
  instructions of programs with the operands `Interrupted`; a second
  one, where a program is about interrupts, nests in the handler of the first.

### Fairness

- The producer and the RMT interrupt (`rmt_ring`): the emulator task is
  scheduled, alone on its core; the DMA asks for symbols as long as the
  transmission lasts. `QueueDrains` assumes that the driver has taken the
  transmission, which it may refuse for ever.
- The guest's polling and the VIA's step (`keyboard`): every slice ends in
  `stepPeripheralClocks`, and a guest that polls goes on polling. `GuestCatchesUp`
  is for a client that rests and never overflows the queue (`patient`).
- The emulator task and the guest's driver (`fdd`): one request is taken per
  frame; the driver is opened by the ROM and polls through accRun. The poll is
  strongly fair: it is disabled inside `openImage`, which ends. The users are
  not fair; `InsertReported` is for swaps that end.
- Callers, frames, USB events and the restart task (`storage_usb`): each is a
  FreeRTOS task that blocks only where the model has a guard. What the PC and
  the users do is not fair.
- The emulator's loop and the sync (`rtc`): the tick comes every emulated second
  (strong fairness: it waits while the guest is inside an access), stores, saves
  and a sync that has begun end. Syncs, seconds and restarts are not fair;
  `ClockFollowsHost` is for the time after the last of them.
- `tmeStartEmu` calls `m68k_execute` and `viaStep` in turn for ever (`m68k`): an
  instruction runs as long as the processor is not stopped, and the VIA's request is
  presented again. The first is written without `ENABLED`,
  which is exactly "not stopped". Devices are not fair: they may stay silent.
- The render task and the emulator task (`display`): each polls or loops; a
  frame runs out of cycles, hence strong fairness of its end against the
  guest's steps; a call that has begun returns. `ScreenFollows` is for callers
  that rest and an emulator that in the end keeps running.

## 4. What is proved

| theorem | statement | assumptions on constants |
|---|---|---|
| `RmtTypeCorrect`, `RmtChunkOwnership`, `RmtNoIndexOverwritten`, `RmtNoLostWakeup` | `Spec /\ []NoWrap => []` of `TypeOK`, `ChunkOwnership`, `NoIndexOverwritten`, `NoLostWakeup` | `RmtConstants` |
| `RmtRingIsQueue` | `Spec /\ []NoWrap => ImplementsQueue` (the ring implements `SymbolQueue`) | `RmtConstants` |
| `PwmWaiterIsWoken`, `PwmRingIsFifo` | `PwmSpec => []WaiterIsWoken`, `[]RingIsFifo` | none; `PwmAssumption` |
| `FrameTimelineKept`, `FrameRenderedExactly` | `FrameSpec => []TimelineKept`, `[]RenderedExactly` | `FrameAssumption`; that and `SoundRenderAssumption` |
| `HostBufferIsQueue`, `KeyBufferIsQueue` | `HostKeysSpec => ImplementsHostKeys`, and `KeyboardSpec` | `HostKeyRingConstants` |
| `ViaIrqIsRight`, `KeyboardIrqIsRight` | `ViaSpec => []IrqMatchesFlags`, and `KeyboardSpec` | none |
| `ViaSlicesAreExact` | `ViaSpec => []SlicesAreExact` | `ViaConstants` |
| `EdgesReachGuest`, `GuestWillAgree` | `KeyboardSpec => EachEdgeOnce`, `[]GuestAgrees` | those of `HostKeyRing`, `Via`, `Keyboard` |
| `MouseIrqIsPresented`, `MouseMotionIsExact` | `MouseSpec => []IrqPresented`, `[]MotionExact` | `MouseAssumption` |
| `StatusTellsTheTruth`, `CommandsRunOnce`, `WritesGoWhereAsked` | `ScsiSpec => []GoodMeansDone`, `[]ExecutedOnce`, `WritesAsAsked` | `ScsiAssumption` |
| `StorageSetUpOnce`, `StorageRebootsOnce` | `Spec => []SetUpOnce`, `[]UsbTypeOK` | none |
| `VolumeKeepsImage`, `DrivesShowImages` | `Spec => []VolumeMatches`, `[]DriveShowsImage` | none; those of `PvFdd` |
| `SavesAreExact`, `SettingsStayWhole`, `PageShowsFile` | `SettingsSpec => []SaveIsExact`, `[]WholeAtAnyMoment`, `[]PageMatchesFile` | `SettingsAssumption` |
| `SurfacesAreKept` | `Spec => []SurfacesKept` of `Display` | `DisplayAssumption` |
| `RtcPramIsSaved`, `RtcPramReadsBack`, `RtcSetTimeCommits`, `RtcTypeCorrect` | `RtcSpec => []PramIsSaved`, `[]PramReadsBack`, `SetTimeCommits`, `[]RtcTypeOK` | `RtcConstants`; the second with `~Pb7Driven` |
| `AdditionIsExact`, `SubtractionIsExact` | the 32-bit carry formula is the carry out, and carry and result are the sum or difference as a number | operands in the width |
| `AdditionOverflow`, `SubtractionOverflow` | V says that the signed sum or difference does not fit; without it the result is exact | the same |
| `ConditionsCompare` | after a comparison ten conditions order the operands, unsigned and signed, and the other four give the overflow and the sign | the same |

The assumptions say what the code's own constants satisfy (sizes are positive,
a ring is longer than a frame, an instruction is not longer than a scanline);
TLC evaluates them in every run.

**The ring.** For any number and size of chunks, any requests of the driver
and any refusal of the transmission. None of the three properties is
inductive. `RingInv` adds: what each place says of the agents' own variables
(`ProducerControl`, `CallbackControl`); that the queued entries are READY,
different, and nobody else's (`QueueSound`); that a state byte names its owner
(`StateNamesOwner`); that the index about to be published is in a slot that was
free (`IndexStored`); and that what the scan has passed is taken unless a
notification is under way (`ScanPassed`). The argument for `NoIndexOverwritten`
is a count: queued entries and the writer are different chunks, so fewer than
`NumChunks` are queued while one is being published (`QueueLeavesRoom`), and
two numbers less than `NumChunks` apart have different slots (`SlotDistinct`).
The proof has one lemma per concern and in it one step per action.

For the refinement (`RmtRingIsQueue`) the mapping is followed position by
position. A position in the published part is a chunk and an offset, quotient
and remainder by `ChunkSymbols`; so publishing and selecting a chunk move
symbols from one part of the mapping to its neighbour and leave every position
as it is (`AdvanceHeadKeeps`, `SelectNextChunkKeeps`), storing an index or a
symbol touches no queued chunk (`QueueIndexKeeps`, `WriteSymbolPuts`: this is
ownership), and copying shifts all positions down (`CopyTakes`). That a new
symbol finds room is the count again, with the callback's chunk taken off as
well (`QueueLeavesTwo`, `RoomForSymbol`).

`NoWrap` says that the publication counter has not reached its last value,
2^32 - 1: at one chunk of 256 symbols every few milliseconds that is more than
half a year of sound without a reboot. It is needed: 2^32 is 1 modulo 5, so at
the wrap two neighbours share a slot. TLC, with two-bit counters (the comment in
`MCRmtRing.cfg`; three chunks: 4 is 1 modulo 3 as well) finds
`NoIndexOverwritten` violated.

**The other ring.** For any frame shorter than the ring, and mutes at any
step. `SignalIsForMe` is all the wake-up needs: from the producer's re-arming on,
the signal is clear, or was given for this wait. For the order, `PwmInv` says
that there is room for a frame from the look at it until the head is stored
(`RoomKept`), that between the interrupt's read and its store of the tail either
nobody moved it or the emulator task has muted, and then nobody comes back to the
slot it read (`AdvanceSound`), and that the samples between tail and head are
the queue (`FifoInRing`), until two agents move the tail at once (`raced`).

**The timeline.** `FrameInv`: the cycles run are the scanlines', the overrun that was
taken off and the slice's; it is less than an instruction, so a slice ends before the
next line's end. That much holds through RESETs and edges of timer 1, because the
overrun carried on is computed from the request. Without them in the frame `Placed`
holds as well: `surpassCycles` is what was taken off, the recorded edges are behind
the cycle being run and alternate, and the last is the gate's state unless the list
is full. A new frame starts with an empty list and so with `Placed` again.

**The rendering.** For any lines, cycles, samples, gate, volume, resolution and half
symbol left by the frame before. The invariant is `FrameInv` with `Heard`: while neither timer 1 nor a
RESET has moved the gate in the frame, at every cycle run so far and before the line of an edge that found no room, the gate was what
the list says of it (`ListFollows`), and such an edge came after the last of a full list
(`LostLate`). It is kept by an instruction, which runs with the gate the list ends
with, and by the three things `recordSoundGateEvent` does with an edge (`RecordedIs`). At
the frame's end the list therefore has the wave of the guest's writes
(`HeardFollows`), and what is left is about the renderers' functions.

- The parts of a line lie end to end, each with the gate of its cycles
  (`EventIndexIs`, `SegmentIs`, `SegmentFollows`).
- The cycles added up for a sample are those that are high (`EnabledHighCyclesAre`, a
  count of a set cut into intervals), and the shortcut for a line without an event, the
  sample itself, agrees with the sum (`LowCyclesIs`). This is where `Full <= LineCycles`
  is needed, 255 and 352 in the code: with fewer cycles than levels a sample is
  not got back from its high cycles.
- The ticks carried from line to line are those of the line's first cycle
  (`LineTicksAre`), so segments meet and no tick is lost over a frame.
- What a writer plays (`Waveform`) grows by exactly the run appended, whatever pieces
  and symbols it is put into, and is not changed by a flush (`AppendPieceIs`,
  `AppendRunIs`, `FlushKeeps`). Each slot written has between one tick and `MaxDuration`.
- `Plays` says that a waveform has, after what was there, the level of each cycle up to
  a count; a segment, a line and the frame carry it on (`RenderSegmentPlays`,
  `RenderLinePlays`, `RenderLinesPlay`). `RmtPlaysAny` is stronger than the property
  TLC checks: samples that differ from line to line as they like.

**The keys.** `KeysStep` maps every step of the circular buffer to one of the
bounded queue or a stutter; the queue is the slots from tail to head, and the
step that cuts out an event moves each later slot down by one. For the guest,
`Protocol` says what each place of its polling knows of the VIA's phase and of
the edges taken, so that an edge read is the edge taken (`CodeIs`: a byte decodes
to its key). `ViewFollows` says that the keys held at the host are those the guest
will have down once the taken and the queued edges are applied in order
(`DownAfter`); it is kept by an edge at the end and by one taken at the front.

**The VIA.** `IrqMatchesFlags` is inductive by itself. `SlicesAreExact` compares
two computations: n single cycles, defined recursively, and the arithmetic of
`viaStep`, in every field but one: a timer 1 that does not run freely stops at zero cycle
by cycle, and below it by the rest of the slice in `viaStep`, which the property states
(`TimesOut`). Each has a closed form, which is proved by induction on the cycles; the
invariant `TimersOK` says what timers can be (an active timer is positive, a
wrapping one within its period).

**The mouse.** `IrqInv` adds to the types that the level is what `assessIrq` made
it, in the handler too, and how far the phase can have gone. For the motion,
`Followed` says for each axis that an edge is either counted or latched with the
direction the handler will read, and for a forced reset that the one edge is lost or
counted for ever.

**The SCSI disks.** For any targets, cards, image sizes, commands of the guest's
driver (whose writes fit the buffer) and failures, and machine resets at any register
access. `GoodMeansDone` and `WritesAsAsked` speak of commands that name a block whose byte
offset fits 32 bits (`Addressable`). A bus reset is
excepted (`Unbroken`: the controller keeps its phase and its position through it, and
a later change of phase may run what is left in the banks). None of the three
properties is inductive. `Protocol` says of each place of the driver what the
controller holds: which phase it is in, that the target is linked, how many units
the position counts; in the command phase that the fields sent are in the bank and the
disk has not been called (`Commanding`), in a data-in phase that it has been called
once and the data bank holds the medium's blocks if its status is GOOD
(`Receiving`), in a data-out phase that the blocks sent wait in the bank (`Sending`).
Between two transactions nothing is left that a change of phase could run (`Rest`), also
after a machine reset, whose phase register reads as data-out. What
the disk does is in lemmas about its operators: `RequestRuns` (the command decoded is
the request, a length of 0 included), `ReadEnds`, `WriteEnds`; `FlashWritten` follows the
flash's sectors by induction up to the first failure. The types, by contrast, hold
through bus resets, and only as weakly as `ScsiTypeOK` states them: after one, an old write
command may put an answer to INQUIRY or READ CAPACITY on the medium.

**The hand-over of the card.** For any set of callers and any faults. There is
no lock; `IInv` says what stands in for one: whoever is past the card's
initialisation owns the SDMMC host (`OwnerOK`), which the application owns while
its volume is mounted, so two cannot be there (`Alone`), and nobody who has yet
to install the TinyUSB driver finds it installed (`NoDriverYet`). A reboot is
scheduled once because it is under way only with its flag set and the driver
installed, and then nobody is before the step that clears the flag (`RebootOnce`).

**The floppy drives.** For any drives, images and spellings. `VolumeMatches`
is inductive with the domains of the two functions: a request is taken only for
a drive without an open image, such a drive has no volume, and an eject gives
up both. `DriveOK` excepts the drive between the steps of an `openImage` or an eject,
whose name is empty or whose image is closed; a request in the web
server's hands or in the queue is for a drive (`RequestsOK`), and the queue's end
is reached in finitely many drives.

**The settings file.** `SettingsInv` says for each place of `saveSettingValue`
what the three names hold (`Stage`), of the one task that runs, with at most one
failing call in a save; and that the page shows the file, or the file as it was
when its save began (`PageShows`), for plain values and but for the keys of a network
joined since (`strays`). The types hold of any tasks at once. That at
most one call fails is needed: when both renames fail there is no
`setting.txt`, and the form's next save removes the `setting.bak` that has the
settings (TLC shows it in the world `NoWayBack`, which `Sound` leaves out).

**The screen.** For any console, texts and callers, `DisplayInv` says where each
surface is: the active one in the front buffer until it has been saved, the next
one there once it is loaded, every other in its own buffer (`Placed`); and who may
draw: the render task only with the lock and on the console, a switch from or to
the console only with the lock, a switch between pages without it, when nobody
else draws (`Locked`). A text is printed character by character by a recursive
function, whose result is typed by induction on its length.

**The clock chip.** For any number and width of bytes, any command, any times and
parameter bytes, with any number of syncs, failures and restarts. `ClockInv` says how
far the two ends of the serial line agree: the chip has taken in as many bits as the
guest has clocked (`Clocked`), they are the bits the guest sent and no others
(`SentBits`), and of a byte read the register holds all bits and the guest the first
few, as a quotient of the byte (`AnswerBits`, `AnswerHeard`). At the end of a frame a
number is put together from its bits (`NumberOfBits`), so address and byte are the
guest's, and a time from its bytes (`TimeOfBytes`). `BytesSet` keeps the bytes of a time
that are already set until the last one commits it. `PramKept` is what makes
`PramIsSaved` inductive: a save that is under way, the time task's too, carries the
guest's last bytes unless the guest's own save still waits or has failed; NVS letting
one save in at a time is all it needs. `EqualReadsAreReal` has no such theorem, because
it is false of some constants: with three bytes or more two equal readings can be of
no time, if the guest takes as long over them as the second byte takes to come round
(18 hours with bytes of 8 bits: low and middle byte before the high byte's carry, the
high byte after it, and the second time the low byte before the middle byte has come
back). The program reads a time within milliseconds, which no constant of `Rtc` says.

**The 68000's flags.** For a width of any even number of values 2h, any operands
and any carry in. `CFLAG_ADD_32` and its like are formulas over the sign bits of
operands and result, because a 32-bit `uint` has no bit above the result;
`CFLAG_8` and `CFLAG_16` read that bit. The theorems say that both are the carry,
so a chain of `ADDX` or `SUBX` adds numbers of any length, and that the tests of
`m68kcpu.h:709` on N, V, C and Z after a comparison mean what the
mnemonics say. The proofs split on the two cases of the result (with and without wrap) and
on the sign of each operand; what is left is linear. TLC's run of the
same operators covers their use in the instructions.

**Induction.** The library's induction theorems take an operator and cannot be
used. `SetInduction` (from `WFMin` and the well-foundedness of the naturals) takes a
set instead, which is enough for what recursive functions compute: `StepsExist` (for
the chip and the renderers `RecursionExists`, from `Induct` and `SetInduction`) gives a function with the recursion's values, hence the `CHOOSE` behind a recursive
definition has them, and a closed form then follows one step at a time.

Model-checked only, because TLAPS does not prove them: liveness (`QueueDrains`,
`GuestCatchesUp`, `PollingGoesOn`, `InsertReported`, `EjectRebootsUnlessLate`,
`ScreenFollows`, `ClockFollowsHost`, `InterruptsAnswered`). Model-checked only so far:
`EqualReadsAreReal` (see the clock chip) and of the 68000 what its programs compute (a property
of the programs of `MCM68k`) and `PrivilegeKept`. The last is false of some programs: one
that moves several registers to a device's address in one MOVEM is interrupted at the
first store, and the rest is stored, and A7 moved, on the supervisor's side. A theorem
needs a condition on the program's addresses, and MOVEM as a recursive function instead
of a fold, which takes an operator.

## 5. Where the code differs from what is said of it

`settings_race`: two tasks that save at the same time use one `setting.tmp` and
one `setting.bak`, and the copy one makes of the old file undoes what the other
has saved. `app_settings.h:60` says "Persist one storage image selection while
preserving other settings."

Further configurations, to be run by hand; each one ends in a violation that
shows a limit of the code, and the properties in section 3 are stated beside
that limit. Where one stands for several, its comment says which lines to change. The first
row is the exception: its property holds.

| configuration | property | what TLC shows |
|---|---|---|
| `RmtPauseFaults.cfg` (RmtPause) | `StopSilences` | holds: an emulator stopped for good ends up muted, however the two callers interleave |
| | `SelectsPublished` | a mute's `head = tail` lets the callback select an index published before |
| | `EnabledMeansEnabled` | a `run` and a `stop` cross in `sndSetEnabled`, and the channel stays disabled with the sound enabled |
| | `SoundResumes` | a series of pauses leaks every chunk |
| `MCRmtRing.cfg` (RmtRing) | `NoIndexOverwritten` | the wrap of the counters, above |
| `MCSound.cfg` (MCSound) | `EventsOrdered` | an edge of timer 1 is listed at a cycle of another slice, and one of the guest's after a RESET too early: the list is out of order or has one level twice |
| `MCSound.cfg` (Pwm) | `MutedIsSilent` | a mute between the two stores of `audioSetDuty` leaves the output at its last sample |
| `MCKeyboard.cfg` (Keyboard) | `NoStuckKey` | a queue full of releases loses a release, and the guest keeps the key down |
| `StorageUsbFaults.cfg` (StorageUsb) | `SafePoint`, `ImagesClosed` | `tmeEmuStopped` is true at once, so the card is taken within a frame and with images open (`PUBLISH_DETAILS.md:165` says otherwise) |
| | `EjectReboots` | when the CDC's set-up or the restart task fails, an eject does not reboot |
| `PvFddFaults.cfg` (PvFdd) | `MountedKept` | a mounted image is deleted: mounted between the filer's check and its remove, or spelt in another case |
| `MCScsi.cfg` with `INVARIANT StatusIsResult` | `StatusIsResult` | INQUIRY leaves the opcode as status |
| `MCScsi.cfg` with `INVARIANT FarBlockIsRefused` | `FarBlockIsRefused` | the byte offset wraps: block 2^23 is block 0 to the disk, and the command ends GOOD |
| `SettingsFaults.cfg` (MCSettings) | `ChoicesKept`, `BootKeepsSettings` | the page posts back what the menu has changed since; a power loss between the renames boots with the defaults |
| | `PageIsTheBoots` | the page shows a value that the loader reads differently, or the network of a join that was not saved, or the one before a join that was |
| `DisplayFaults.cfg` (MCDisplay) | `ScreenFollows` | `dispShowConsole` and `dispShowEmu` of two tasks leave one's mode with the other's surface; the console is then not drawn. With `OpenTexts`, a character put in the last column marks the next row and not its own; every text the firmware prints ends its line, so this does not show today |
| | `ScreenFollowsStopped` | while the emulator is stopped no request for a screen is applied |
| `RtcFaults.cfg` (Rtc, MCRtc) | `EqualReadsAlwaysReal` | a sync between the bytes of two readings leaves them equal and of no time that was |
| | `SetTimeAlwaysCommits` | `rtcTick` between two bytes of a time the guest sets commits a mixture to the host's clock |
| | `PramReadsBack` with `Pb7Driven` | the port is written again when the timer moves PB7, and the bit on the data line is lost |
| `M68kFaults.cfg` (MCM68k) | `FlagsKept` | a MOVE to a device sets its flags after the write, and the write may interrupt first: the frame on the stack has the old flags |
| | `InterruptsAnswered` with `SccMachines` | an SCC request that the handler leaves for later is not presented again: `scc.c:105` says it must be, but the call of `sccTick` is commented out (`emu.c:236`) |

## 6. What is not modelled

- Data that no property distinguishes: pixels, glyphs, rotation, the loudness of a PWM
  sample (in the RMT backend the volume only silences, and that is modelled), the
  PDM modulator, JSON and HTML, log texts.
- `rmt_transmit`'s set-up, the LEDC and the LCD peripherals, beyond what the
  code sees of them.
- The SCC's serial side (its registers other than those of the DCD
  interrupt), the VIA's handshake modes the Macintosh does not use.
- Uploads' contents and the filer's directory handling.
- In `Pwm`, a shell's step inside the interrupt (both run on core 0), and in
  all modules the compiler's reordering of plain stores to different variables.
- Of the 68000: the fetch and the decoding of instructions (`m68kops.c`, the
  generator `m68k_in.c`), cycle counts, tracing and address errors (compiled out), the
  handlers of the 68010 and later, instructions that change the program,
  PC-relative data other than constants, and a stack in a device's addresses.
  A division of the least long by -1 gives 0 (`m68kopdm.c:393`), and is modelled so.
- Of the clock: the SNTP library, and a sync by the shell beside the task's.
- In `Display`, the screenshot's copy of the front buffer, which may show a
  switch half done.

## 7. Plan

The order is by importance; the first ten steps are done.

1. `RmtRing`, `SymbolQueue`, `RmtPause`; proofs of the ring.
2. `HostKeys`, `HostKeyRing`, `Via`, `Keyboard`.
3. `Mouse` with the SCC.
4. `StorageUsb` with its proof; `PvFdd` with its proof.
5. `Scsi` with the disks and backends.
6. `Settings`.
7. `SoundRender`, `Frame`, `Pwm`.
8. `Display` with the VMU.
9. `Rtc` with the network time task and the saves; proofs of parameter memory and
   of setting the time.
10. The 68000: `M68kArith` with its proofs, `M68kBits`, `M68kCpu`, `M68kAlu`, `M68k`.
11. `Mmu`: overlay, remapping and the fast map, against a reference decoding
    that looks at the flags on each access; then the memory of `M68kCpu` behind it.
12. The console log's ring and its web stream; the screenshot against a
    surface switch (as an extension of `Display`).
13. Composition: `Display`, `Frame` and `StorageUsb` share `emuRunning`; one
    module for the emulator's run and stop over all its callers.

Proof still worth making: `PrivilegeKept` of the 68000, by instruction, under the condition
that section 4 names.
