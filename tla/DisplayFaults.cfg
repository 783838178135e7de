\* Two tasks ask for different screens at once: the mode of one is left with the
\* surface of the other, and the console is drawn no more. With one caller, as in
\* Display.cfg: PROPERTY ScreenFollowsStopped (no request is applied while the
\* emulator is stopped), or Texts <- OpenTexts (a character put in the last column
\* marks the row after it and not its own).
SPECIFICATION FairSpec
CONSTANTS
  Rows = 3
  Cols = 2
  Texts <- NoTexts
  Callers = {menu, usb}
  menu = menu
  usb = usb
  LineRows = {}
PROPERTY ScreenFollows
