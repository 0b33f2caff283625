CONSTANTS
  Day = 8
  Hour = 2
  DefaultHour = 3
  Configs <- MCConfigs
SPECIFICATION FairSpec
INVARIANT OnTheGrid
INVARIANT LateOnlyAfterCrossing
PROPERTY SettingsReachTimetable
CHECK_DEADLOCK FALSE
