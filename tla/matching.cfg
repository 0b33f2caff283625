CONSTANTS
  Products = {1, 2, 3, 4}
  Untouchable = {}
  NoQty = NoQty
  NoSku = NoSku
  NoBarcode = NoBarcode
  Rules <- MCRules
  ChangeLimit = 0
  MaxPercent = 100
  MaxZeroing = 4
  Codes = {1}
  Zeroed = {}
  BarcodeOf <- MCBarcodeOf
  Built <- MCBuilt
  InScope = {1, 2, 3}
  Stock = {1, 4}
  Reports <- MCReports
  Mappings <- MCMappings
  Shunned = {1}
SPECIFICATION Spec
INVARIANT OnlyOursIsTouched OneDecisionPerListing FitTwinIsPicked
CHECK_DEADLOCK FALSE
