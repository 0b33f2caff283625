CONSTANTS
  Products = {p1, p2}
  Untouchable = {}
  NoQty = NoQty
  Rules <- MCRules
  ChangeLimit = 1
  MaxPercent = 100
  MaxZeroing = 1
  Stock = {1, 3}
  Shown = {0, 2}
  MaxFile = 1
  MinRowsPercent = 100
  MissingThreshold = 1
  BadHeaders = TRUE
  Forcing = TRUE
  MaxFaults = 2
SPECIFICATION FairSpec
CHECK_DEADLOCK FALSE
PROPERTY WholeFileIsRead BacklogClears
