\* Two-byte timers of base 2 (periods 1..4) and slices of up to three periods; key 0
\* is a main key, key 1 a keypad key; two queued edges, a client that never
\* overflows the buffer and one that may. Instant is a command of the guest that polls.
\* Keyboard alone: SPECIFICATION KeyboardSpec, INVARIANT NoStuckKey, StepTicks = {1, 3},
\* Commands = {"Inquiry", "Instant"}, Clients = {FALSE} (a queue full of releases).
CONSTANTS
    NumKeys = 2
    QueueSize = 3
    ByteSize = 2
    KeypadBase = 1
    TransferTicks = 2
    InquiryWaitTicks = 4
    StepTicks = {1, 3, 5}
    Commands = {"Inquiry", "Test"}
    Clients = {TRUE, FALSE}
    Guests = {{}, {"timer1", "flags"}, {"timer2", "flags"}, {"sr", "flags"}, {"ports", "flags"}}
SPECIFICATION MCKeyboardSpec
INVARIANTS IrqMatchesFlags SlicesAreExact GuestAgrees
PROPERTIES EachEdgeOnce ImplementsHostKeys GuestCatchesUp PollingGoesOn
