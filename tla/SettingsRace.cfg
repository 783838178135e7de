SPECIFICATION SettingsSpec
CONSTANTS
  Keys = {"ssid", "password", "fd0"}
  KeyOrder <- MCKeyOrder
  WifiKeys <- MCWifiKeys
  ImageKeys = {"fd0"}
  LineOrder <- MCLineOrder
  Positional <- MCPositional
  Vals = {1, 2, 3, 4}
  Cut <- MCCut
  Read <- MCRead
  Rest <- MCRest
  Bad = 9
  Default = 0
  Missing = Missing
  Worlds <- RaceWorlds
  MaxJobs = 2
INVARIANTS ChoicesKept
CHECK_DEADLOCK FALSE
