CONSTANTS
  Products = {p1, p2}
  Untouchable = {}
  NoQty = NoQty
  Rules <- MCRules
  ChangeLimit = 1
  MaxPercent = 100
  MaxZeroing = 1
  Stock = {1, 3}
  Shown = {2}
  MaxFile = 2
  MinRowsPercent = 100
  MissingThreshold = 1
  BadHeaders = FALSE
  Forcing = FALSE
  MaxFaults = 1
SPECIFICATION Spec
INVARIANT TypeOK NothingReadTwice MissingIsCounted DropHasFullFeed
SYMMETRY Symmetry
CHECK_DEADLOCK FALSE
