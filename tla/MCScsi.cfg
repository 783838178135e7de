\* INVARIANT FarBlockIsRefused in place of the three properties below shows the
\* wrap of the byte offset: a read or write of block 8 moves block 0 and ends GOOD.
SPECIFICATION ScsiSpec
CONSTANTS
  Targets = {0, 1}
  Worlds <- IndexedWorlds
  Size = 2
  BufBlocks = 2
  EraseBlocks = 8
  OffsetBlocks = 8
  Vals = {1, 2}
  Requests <- MCRequests
  MaxCommands = 2
INVARIANTS GoodMeansDone ExecutedOnce
PROPERTIES WritesAsAsked
CHECK_DEADLOCK FALSE
