------------------------------ MODULE Display ------------------------------
(***************************************************************************)
(* The screen: the console's text and its dirty rows (disp.cpp), and the   *)
(* surfaces of the VMU (tme/vmu.c), one of which is in the front buffer    *)
(* the LCD scans.  The emulator task switches surfaces, a render task      *)
(* draws the console into the front buffer, and callers of any task print, *)
(* and ask for the console or the Macintosh's screen.                      *)
(*                                                                         *)
(* A picture is abstracted to what it lacks: one of the console to the     *)
(* rows in which it differs from the text (every write is taken for a      *)
(* difference), one of a page of the Macintosh to whether it has all that  *)
(* the guest wrote there.  A full redraw draws every row, so it marks them *)
(* all, and consoleDirty is that some row is marked.  Left out: the LCD's  *)
(* scan, the rotation, which is set at boot, the button's debouncing and   *)
(* the storage menu's request.                                             *)
(***************************************************************************)
EXTENDS Integers, Sequences

CONSTANTS
    Rows, Cols,  \* CONSOLE_ROWS, CONSOLE_COLS
    Texts,       \* the texts printed: sequences of "c", a character, and "n", a newline
    LineRows,    \* the rows dispConsoleWriteRow is called for
    Callers      \* the tasks that call the display

ASSUME DisplayAssumption ==
    /\ {Rows, Cols} \subseteq Nat \ {0} /\ Rows > 1 /\ LineRows \subseteq 0 .. Rows - 1
    /\ \A t \in Texts : t \in Seq({"c", "n"})

Row       == 0 .. Rows - 1
StatusRow == Rows - 1
LogRows   == 0 .. Rows - 2
Page      == {"main", "alternate"}
Surface   == Page \cup {"console"}

VARIABLES
    cursor,             \* [x, y]: consoleCursorX, consoleCursorY
    dirtyRows, full,    \* consoleDirtyRows, consoleFullRedraw
    qrCodeActive,
    dispMode, pendingDispMode,
    frontBuffer, offscreen, \* the pictures in the buffers
    mapped,             \* which buffer the MMU has for a page: "front" or "off"
    activeSurface, selectedMacSurface,
    surfaceMutex,       \* who holds it: "free", "emu" or "render"
    running,            \* emuRunning
    emu, next,          \* the emulator task, and the surface it switches to
    render,             \* the console_render task
    snapshot,           \* of the one that draws: [rows, all, stale since it was made]
    at                  \* each caller's place

text    == <<cursor, dirtyRows, full>>
mode    == <<dispMode, pendingDispMode>>
buffers == <<frontBuffer, offscreen>>
vmu     == <<mapped, activeSurface, selectedMacSurface>>
emuVars == <<emu, next, running>>
vars    == <<text, qrCodeActive, mode, buffers, vmu, surfaceMutex, emuVars, render, snapshot, at>>

MacPicture(page, whole) == [of |-> page, whole |-> whole]
ConsolePicture(stale, qr) == [of |-> "console", stale |-> stale, qr |-> qr]
Forgotten  == ConsolePicture(Row, FALSE)
NoSnapshot == [rows |-> {}, all |-> FALSE, stale |-> {}]

Init ==
    /\ cursor = [x |-> 0, y |-> 0] /\ dirtyRows = Row /\ full = TRUE
    /\ qrCodeActive = FALSE /\ dispMode = "console" /\ pendingDispMode = "none"
    /\ frontBuffer = ConsolePicture(Row, FALSE)
    /\ offscreen = [s \in Surface |-> IF s = "console" THEN Forgotten
                                      ELSE MacPicture(s, TRUE)]
    /\ mapped = [p \in Page |-> "off"]
    /\ activeSurface = "console" /\ selectedMacSurface = "alternate"
    /\ surfaceMutex = "free" /\ running = TRUE /\ emu = "top" /\ next = "console"
    /\ render = "poll" /\ snapshot = NoSnapshot
    /\ at = [c \in Callers |-> "out"]
----------------------------------------------------------------------------
(* The text.  What is written makes every picture of it, and a snapshot    *)
(* being drawn, stale in its rows.                                         *)

Aged(picture, rows) ==
    IF picture.of = "console" THEN [picture EXCEPT !.stale = @ \cup rows] ELSE picture

Written(rows) ==
    /\ frontBuffer' = Aged(frontBuffer, rows)
    /\ offscreen' = [s \in Surface |-> Aged(offscreen[s], rows)]
    /\ snapshot' = IF render = "paint" \/ emu = "paint"
                   THEN [snapshot EXCEPT !.stale = @ \cup rows] ELSE snapshot

\* consoleNewlineLocked and consolePutCharLocked, on the cursor, the rows written
\* and what they have marked.
Newline(s) ==
    IF s.y < StatusRow - 1 THEN [s EXCEPT !.x = 0, !.y = @ + 1]
    ELSE [s EXCEPT !.x = 0, !.wrote = @ \cup LogRows, !.marks = Row, !.full = TRUE]

PutChar(s, ch) ==
    IF ch = "n" THEN Newline(s)
    ELSE LET put  == [s EXCEPT !.x = @ + 1, !.wrote = @ \cup {s.y}]
             here == IF put.x >= Cols THEN Newline(put) ELSE put
         IN  [here EXCEPT !.marks = @ \cup {here.y}]

Printed(chars) ==
    LET after[n \in 0 .. Len(chars)] ==
            IF n = 0 THEN [x |-> cursor.x, y |-> cursor.y, wrote |-> {}, marks |-> {}, full |-> FALSE]
            ELSE PutChar(after[n - 1], chars[n])
    IN  after[Len(chars)]

Printf(c, chars) ==
    LET s == Printed(chars)
    IN  /\ at[c] = "out"
        /\ cursor' = [x |-> s.x, y |-> s.y]
        /\ dirtyRows' = dirtyRows \cup s.marks /\ full' = (full \/ s.full)
        /\ Written(s.wrote)
        /\ UNCHANGED <<qrCodeActive, mode, vmu, surfaceMutex, emuVars, render, at>>

\* dispConsoleWriteRow; the status lines write StatusRow.
WriteRow(c, row) ==
    /\ at[c] = "out" /\ Written({row})
    /\ dirtyRows' = dirtyRows \cup {row}
    /\ UNCHANGED <<cursor, full, qrCodeActive, mode, vmu, surfaceMutex, emuVars, render,
                   at>>

Clear(c) ==
    /\ at[c] = "out" /\ Written(Row)
    /\ cursor' = [x |-> 0, y |-> 0] /\ dirtyRows' = Row /\ full' = TRUE
    /\ UNCHANGED <<qrCodeActive, mode, vmu, surfaceMutex, emuVars, render, at>>
----------------------------------------------------------------------------
(* Drawing: a snapshot takes over the marks, under consoleMux; the rows    *)
(* are then drawn, under surfaceMutex, and the QR code over them.          *)

TakeMarks ==
    /\ snapshot' = [rows |-> dirtyRows, all |-> full, stale |-> {}]
    /\ dirtyRows' = {} /\ full' = FALSE
    /\ UNCHANGED cursor

Painted(picture) ==
    LET old == IF picture.of = "console" THEN picture ELSE ConsolePicture(Row, FALSE)
    IN  ConsolePicture((old.stale \ snapshot.rows) \cup (snapshot.stale \cap snapshot.rows),
                       qrCodeActive \/ (old.qr /\ ~snapshot.all))

RenderAt(from, to) == render = from /\ render' = to
NotRender == UNCHANGED <<qrCodeActive, mode, offscreen, vmu, emuVars, at>>

ConsoleOnScreen == dispMode = "console" /\ activeSurface = "console"

Look ==
    /\ RenderAt("poll", "try") /\ ConsoleOnScreen /\ dirtyRows # {}
    /\ UNCHANGED <<text, frontBuffer, surfaceMutex, snapshot>> /\ NotRender
TryLock ==
    /\ RenderAt("try", IF surfaceMutex = "free" THEN "check" ELSE "poll")
    /\ surfaceMutex' = IF surfaceMutex = "free" THEN "render" ELSE surfaceMutex
    /\ UNCHANGED <<text, frontBuffer, snapshot>> /\ NotRender

\* Mistake: the render task does not look again once it has the lock.
CheckNothing ==
    /\ RenderAt("check", "snapshot")
    /\ UNCHANGED <<text, frontBuffer, surfaceMutex, snapshot>> /\ NotRender

CheckAgain ==
    /\ RenderAt("check", IF ConsoleOnScreen THEN "snapshot" ELSE "unlock")
    /\ UNCHANGED <<text, frontBuffer, surfaceMutex, snapshot>> /\ NotRender
TakeSnapshot ==
    /\ RenderAt("snapshot", "paint") /\ TakeMarks
    /\ UNCHANGED <<frontBuffer, surfaceMutex>> /\ NotRender

\* Mistake: the marks are cleared once the rows are drawn.
PaintThenClear ==
    /\ RenderAt("paint", "unlock")
    /\ frontBuffer' = Painted(frontBuffer) /\ snapshot' = NoSnapshot
    /\ dirtyRows' = {} /\ full' = FALSE
    /\ UNCHANGED <<cursor, surfaceMutex>> /\ NotRender

PaintFront ==
    /\ RenderAt("paint", "unlock")
    /\ frontBuffer' = Painted(frontBuffer) /\ snapshot' = NoSnapshot
    /\ UNCHANGED <<text, surfaceMutex>> /\ NotRender
Unlock ==
    /\ RenderAt("unlock", "poll") /\ surfaceMutex' = "free"
    /\ UNCHANGED <<text, frontBuffer, snapshot>> /\ NotRender

RenderTask == Look \/ TryLock \/ CheckAgain \/ TakeSnapshot \/ PaintFront \/ Unlock
----------------------------------------------------------------------------
(* The emulator task: the guest's writes and its choice of a page, and at  *)
(* the end of a frame dispApplyPendingMode.                                *)

EmuAt(from, to) == emu = from /\ emu' = to
NotEmu == UNCHANGED <<qrCodeActive, dispMode, running, render, at>>

FrameStart ==
    /\ EmuAt("top", "guest") /\ running
    /\ UNCHANGED <<text, pendingDispMode, buffers, vmu, surfaceMutex, next, snapshot>>
    /\ NotEmu

\* Through the buffer the MMU has for the page.
GuestWrite(page) ==
    LET Lacks(picture) == IF picture.of = page THEN MacPicture(page, FALSE) ELSE picture
        whole == MacPicture(page, TRUE)
        front == mapped[page] = "front"
    IN  /\ EmuAt("guest", "guest")
        /\ frontBuffer' = IF front THEN whole ELSE Lacks(frontBuffer)
        /\ offscreen' = [s \in Surface |-> IF s = page /\ ~front THEN whole
                                            ELSE Lacks(offscreen[s])]
        /\ UNCHANGED <<text, pendingDispMode, vmu, surfaceMutex, next, snapshot>> /\ NotEmu

\* activateSurface, when the surface is another one.
Activate(surface) ==
    IF surface = activeSurface
    THEN emu' = (IF surfaceMutex = "emu" THEN "unlock" ELSE "guest") /\ UNCHANGED next
    ELSE emu' = "save" /\ next' = surface

\* vmuSelectMacSurface: a write to port A, or a RESET.
SelectMacSurface(page) ==
    /\ emu = "guest" /\ selectedMacSurface' = page
    /\ IF activeSurface = "console" THEN UNCHANGED <<emu, next>> ELSE Activate(page)
    /\ UNCHANGED <<text, pendingDispMode, buffers, mapped, activeSurface, surfaceMutex,
                   snapshot>> /\ NotEmu

SaveActive ==
    /\ EmuAt("save", "load")
    /\ offscreen' = [offscreen EXCEPT ![activeSurface] = frontBuffer]
    /\ UNCHANGED <<text, pendingDispMode, frontBuffer, vmu, surfaceMutex, next, snapshot>> /\ NotEmu
LoadNext ==
    /\ EmuAt("load", "switch") /\ frontBuffer' = offscreen[next]
    /\ UNCHANGED <<text, pendingDispMode, offscreen, vmu, surfaceMutex, next, snapshot>> /\ NotEmu

MappedFor(surface) == [p \in Page |-> IF p = surface THEN "front" ELSE "off"]

\* The copy left in next's own buffer is overwritten before it is read again, and
\* forgotten here.
SwitchSurface ==
    /\ EmuAt("switch", IF surfaceMutex = "emu" THEN "unlock" ELSE "guest")
    /\ activeSurface' = next /\ mapped' = MappedFor(next)
    /\ offscreen' = [offscreen EXCEPT ![next] = Forgotten]
    /\ UNCHANGED <<text, pendingDispMode, frontBuffer, selectedMacSurface, surfaceMutex, next,
                   snapshot>> /\ NotEmu

\* The end of the frame's slices.
TakePendingMode ==
    /\ EmuAt("guest", CASE pendingDispMode = "none"    -> "rest"
                        [] pendingDispMode = "console" -> "lock console"
                        [] pendingDispMode = "emu"     -> "lock mac")
    /\ pendingDispMode' = "none"
    /\ UNCHANGED <<text, buffers, vmu, surfaceMutex, next, snapshot>> /\ NotEmu

LockForConsole ==
    /\ EmuAt("lock console", IF activeSurface = "console" THEN "unlock" ELSE "snapshot")
    /\ surfaceMutex = "free" /\ surfaceMutex' = "emu"
    /\ UNCHANGED <<text, pendingDispMode, buffers, vmu, next, snapshot>> /\ NotEmu
SnapshotOffscreen ==
    /\ EmuAt("snapshot", "paint") /\ TakeMarks
    /\ UNCHANGED <<pendingDispMode, buffers, vmu, surfaceMutex, next>> /\ NotEmu
PaintOffscreen ==
    /\ EmuAt("paint", "save") /\ next' = "console" /\ snapshot' = NoSnapshot
    /\ offscreen' = [offscreen EXCEPT !["console"] = Painted(@)]
    /\ UNCHANGED <<text, pendingDispMode, frontBuffer, vmu, surfaceMutex>> /\ NotEmu
LockForMac ==
    /\ emu = "lock mac" /\ surfaceMutex = "free" /\ surfaceMutex' = "emu"
    /\ emu' = IF selectedMacSurface = activeSurface THEN "unlock" ELSE "save"
    /\ next' = selectedMacSurface
    /\ UNCHANGED <<text, pendingDispMode, buffers, vmu, snapshot>> /\ NotEmu
UnlockSurface ==
    /\ EmuAt("unlock", "rest") /\ surfaceMutex' = "free"
    /\ UNCHANGED <<text, pendingDispMode, buffers, vmu, next, snapshot>> /\ NotEmu

\* The frame's sound, and the pause until the next.
FrameRest ==
    /\ EmuAt("rest", "top")
    /\ UNCHANGED <<text, pendingDispMode, buffers, vmu, surfaceMutex, next, snapshot>>
    /\ NotEmu

FrameEnd == \/ TakePendingMode \/ LockForConsole \/ SnapshotOffscreen \/ PaintOffscreen
            \/ LockForMac \/ SaveActive \/ LoadNext \/ SwitchSurface \/ UnlockSurface
            \/ FrameRest \/ FrameStart
EmulatorTask == \/ FrameEnd
                \/ \E p \in Page : GuestWrite(p) \/ SelectMacSurface(p)
----------------------------------------------------------------------------
(* The callers.                                                            *)

CallAt(c, from, to) == at[c] = from /\ at' = [at EXCEPT ![c] = to]
NotCall == UNCHANGED <<cursor, buffers, vmu, surfaceMutex, emuVars, render,
                       snapshot>>

Marked(c, from, to) ==
    /\ CallAt(c, from, to) /\ dirtyRows' = Row /\ full' = TRUE
    /\ UNCHANGED <<qrCodeActive, mode>> /\ NotCall

\* dispShowConsole, a call of its own or in the QR code's: the marks, dispMode, the
\* request.
ShowConsole(c) == Marked(c, "out", "mode") \/ Marked(c, "qr", "qr mode")
StoreConsoleMode(c) ==
    /\ CallAt(c, "mode", "request") \/ CallAt(c, "qr mode", "qr request")
    /\ dispMode' = "console"
    /\ UNCHANGED <<dirtyRows, full, qrCodeActive, pendingDispMode>> /\ NotCall
RequestConsole(c) ==
    /\ CallAt(c, "request", "out") \/ CallAt(c, "qr request", "qr text")
    /\ pendingDispMode' = "console"
    /\ UNCHANGED <<dirtyRows, full, qrCodeActive, dispMode>> /\ NotCall

\* dispShowEmu: dispMode, the request.
ShowEmu(c) ==
    /\ CallAt(c, "out", "request emu") /\ dispMode' = "emu"
    /\ UNCHANGED <<dirtyRows, full, qrCodeActive, pendingDispMode>> /\ NotCall
RequestEmu(c) ==
    /\ CallAt(c, "request emu", "out") /\ pendingDispMode' = "emu"
    /\ UNCHANGED <<dirtyRows, full, qrCodeActive, dispMode>> /\ NotCall

\* dispConsoleShowQrCode, of a URL that can be encoded: the code, dispShowConsole,
\* the text from an empty console, and the marks.
ShowQrCode(c) ==
    /\ CallAt(c, "out", "qr") /\ surfaceMutex = "free" /\ qrCodeActive' = TRUE
    /\ UNCHANGED <<dirtyRows, full, mode>> /\ NotCall
WriteQrText(c) ==
    /\ CallAt(c, "qr text", "marks") /\ Written(Row)
    /\ cursor' = [x |-> 0, y |-> 0] /\ dirtyRows' = Row /\ full' = TRUE
    /\ UNCHANGED <<qrCodeActive, mode, vmu, surfaceMutex, emuVars, render>>
HideQrCode(c) ==
    /\ CallAt(c, "out", "marks") /\ surfaceMutex = "free" /\ qrCodeActive' = FALSE
    /\ UNCHANGED <<dirtyRows, full, mode>> /\ NotCall
MarkAll(c) == Marked(c, "marks", "out")

Return(c) == \/ StoreConsoleMode(c) \/ RequestConsole(c) \/ RequestEmu(c)
             \/ (at[c] = "qr" /\ ShowConsole(c)) \/ WriteQrText(c) \/ MarkAll(c)
Call(c) == \/ (at[c] = "out" /\ ShowConsole(c)) \/ ShowEmu(c) \/ ShowQrCode(c)
           \/ HideQrCode(c) \/ Clear(c)
           \/ \E t \in Texts : Printf(c, t)
           \/ \E r \in LineRows : WriteRow(c, r)

PauseOrRun ==
    /\ running' = ~running
    /\ UNCHANGED <<text, qrCodeActive, mode, buffers, vmu, surfaceMutex, emu, next, render,
                   snapshot, at>>

Next == \/ RenderTask \/ EmulatorTask \/ PauseOrRun
        \/ \E c \in Callers : Return(c) \/ Call(c)

Spec == Init /\ [][Next]_vars

\* Both tasks are scheduled, a guest's frame runs out of cycles, calls return.
FairSpec == /\ Spec /\ WF_vars(RenderTask) /\ WF_vars(FrameEnd) /\ SF_vars(TakePendingMode)
            /\ \A c \in Callers : WF_vars(Return(c))
----------------------------------------------------------------------------
DisplayTypeOK ==
    LET Picture == [of : Page, whole : BOOLEAN]
                   \cup [of : {"console"}, stale : SUBSET Row, qr : BOOLEAN]
    IN  /\ cursor \in [x : 0 .. Cols - 1, y : LogRows]
        /\ dirtyRows \subseteq Row /\ (full => dirtyRows = Row)
        /\ {full, qrCodeActive, running} \subseteq BOOLEAN
        /\ dispMode \in {"console", "emu"} /\ pendingDispMode \in {"none", "console", "emu"}
        /\ frontBuffer \in Picture /\ offscreen \in [Surface -> Picture]
        /\ mapped \in [Page -> {"front", "off"}] /\ activeSurface \in Surface
        /\ selectedMacSurface \in Page /\ next \in Surface
        /\ surfaceMutex \in {"free", "emu", "render"}
        /\ snapshot \in [rows : SUBSET Row, all : BOOLEAN, stale : SUBSET Row]

BufferOf(page) == IF mapped[page] = "front" THEN frontBuffer ELSE offscreen[page]
ConsoleBuffer  == IF activeSurface = "console" THEN frontBuffer ELSE offscreen["console"]

(* No surface is lost or drawn over, whoever switches, draws and prints:   *)
(* outside a switch each page is, where the guest accesses it, what the    *)
(* guest wrote last, and the console's picture is a picture of the         *)
(* console (tme/vmu.c, "Preserve the outgoing surface first").             *)
SurfacesKept ==
    /\ DisplayTypeOK
    /\ emu \notin {"save", "load", "switch"} =>
          /\ \A p \in Page : BufferOf(p) = MacPicture(p, TRUE)
          /\ ConsoleBuffer.of = "console"

(* Once the callers rest and the guest's frames go on, the screen shows    *)
(* what was asked for last: the Macintosh, or the console with all of its  *)
(* text and the QR code if there is one.                                   *)
CallersRest == <>[][~\E c \in Callers : Call(c)]_vars
Shown ==
    IF dispMode = "emu" THEN activeSurface # "console"
    ELSE activeSurface = "console" /\ frontBuffer = ConsolePicture({}, qrCodeActive)
ScreenFollows == CallersRest /\ <>[]running => <>[]Shown

(* The same of an emulator that is stopped too, which the code does not    *)
(* keep: its loop applies no request for a mode (tme/emu.c:319).           *)
ScreenFollowsStopped == CallersRest => <>[]Shown
=============================================================================
