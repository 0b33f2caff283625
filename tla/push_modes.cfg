CONSTANTS
  Skus = {s1}
  Qty = {0,1,2}
  NoQty = NoQty
  MaxBatch = 1
  SampleThreshold = 1
  SampleSize = 1
  Web = {w1}
  Main = w1
  Scheduler = scheduler
  NoOne = NoOne
  Modes = {"dry_run", "needs_approval", "automatic"}
  Pausing = TRUE
  EditedSkus = {s1}
  DeletedSkus = {s1}
  FeedsThreshold = 0
  UndoCount = 1
SPECIFICATION Spec
INVARIANT TypeOK IInv
PROPERTY ConfirmedWasShown LedgerIsKept
CHECK_DEADLOCK FALSE
