\* Deleting and renaming an image are the same to a drive: one of them is given.
SPECIFICATION FairSpec
CONSTANTS
  Drives = {0, 1}
  Images = {a, b}
  Spellings = {s}
  WebOps = {"delete", "upload"}
  a = a
  b = b
  s = s
INVARIANTS DriveShowsImage VolumeMatches
PROPERTY InsertReported
