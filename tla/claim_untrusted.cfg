CONSTANTS
  Products = {p1, p2}
  Untouchable = {}
  NoQty = NoQty
  Rules <- MCRules
  ChangeLimit = 1
  MaxPercent = 100
  MaxZeroing = 1
  Stock = {1, 3}
  Shown = {1}
  MaxFile = 2
  MinRowsPercent = 100
  MissingThreshold = 1
  BadHeaders = FALSE
  Forcing = FALSE
  MaxFaults = 0
SPECIFICATION Spec
INVARIANT UntrustedNotSent
SYMMETRY Symmetry
CHECK_DEADLOCK FALSE
