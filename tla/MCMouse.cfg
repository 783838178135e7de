SPECIFICATION MouseSpec
CONSTANTS
  HostMax = 1
  MaxCdx = 2
  MaxPosition = 3
  Guests <- ExploredGuests
INVARIANTS IrqPresented MotionExact
