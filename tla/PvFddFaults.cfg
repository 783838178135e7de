\* A mounted image is deleted: mounted between the check and the remove, or spelt
\* in another case. With one spelling only the first is left.
SPECIFICATION Spec
CONSTANTS
  Drives = {0, 1}
  Images = {a, b}
  Spellings = {stored, typed}
  WebOps = {"delete", "rename"}
  a = a
  b = b
  stored = stored
  typed = typed
INVARIANT MountedKept
