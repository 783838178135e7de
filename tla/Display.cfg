\* Two log rows and the status row; every text the firmware prints ends its line.
SPECIFICATION FairSpec
CONSTANTS
  Rows = 3
  Cols = 2
  Texts <- LineTexts
  Callers = {menu}
  menu = menu
  LineRows = {2}
INVARIANT SurfacesKept
PROPERTY ScreenFollows
