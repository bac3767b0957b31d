SPECIFICATION LSpec
CONSTANTS
  Digits = {0, 1, 2}
  MaxDigits = 1
  MaxPort = 1
  DefaultPort = 1
  MaxVolume = 1
  Modes = 2
  Watched = {"client", "resolve"}
INVARIANTS HostPlaysAtHome NeverSilentTwice
PROPERTIES SettingsSurvive WindowlessEnds
