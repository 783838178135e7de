SPECIFICATION FairSpec
CONSTANTS
  Callers = {shell, http, menu}
  FaultSets = {{"card", "msc", "install", "buffer"}, {"card", "msc", "install", "buffer", "cdc", "task"}}
  shell = shell
  http = http
  menu = menu
INVARIANTS UsbTypeOK SetUpOnce
PROPERTIES EjectRebootsUnlessLate
