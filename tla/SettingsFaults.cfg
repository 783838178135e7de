\* The page posts back what the menu has changed since it was shown. For a power
\* loss between the renames: Worlds <- PowerWorlds and PROPERTY BootKeepsSettings. For
\* a page that differs from the next boot (Worlds <- OddValues: a blank or a comment
\* that the loader drops, a line it reads as two; Worlds <- Joins: a network of the
\* list): INVARIANT PageIsTheBoots.
SPECIFICATION SettingsSpec
CONSTANTS
  Keys = {"ssid", "password", "fd0"}
  KeyOrder <- MCKeyOrder
  WifiKeys <- MCWifiKeys
  ImageKeys = {"fd0"}
  LineOrder <- MCLineOrder
  Positional <- MCPositional
  Vals = {1, 2, 3, 4}
  Cut <- MCCut
  Read <- MCRead
  Rest <- MCRest
  Bad = 9
  Default = 0
  Missing = Missing
  Worlds <- PageWorlds
  MaxJobs = 2
INVARIANT ChoicesKept
CHECK_DEADLOCK FALSE
