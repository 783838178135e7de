\* What the hand-over of the card lets happen, one property at a time: ImagesClosed
\* in place of SafePoint, or EjectReboots as a PROPERTY (of FairSpec).
SPECIFICATION FairSpec
CONSTANTS
  Callers = {shell, http}
  FaultSets = {{}, {"cdc"}, {"task"}}
  shell = shell
  http = http
INVARIANT SafePoint
