CONSTANTS
  Skus = {s1,s2}
  Qty = {0,1}
  NoQty = NoQty
  MaxBatch = 1
  SampleThreshold = 1
  SampleSize = 1
  Web = {w1}
  Main = w1
  Scheduler = scheduler
  NoOne = NoOne
  Modes = {"automatic"}
  Pausing = FALSE
  EditedSkus = {}
  DeletedSkus = {}
  FeedsThreshold = 1
  UndoCount = 1
SPECIFICATION FairSpec
INVARIANT VerifiedBatchIsClosed
PROPERTY InterruptedSendSettles AcceptedItemSettles NoHastyFailure
CHECK_DEADLOCK FALSE
