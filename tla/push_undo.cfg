CONSTANTS
  Skus = {s1}
  Qty = {0,1}
  NoQty = NoQty
  MaxBatch = 3
  SampleThreshold = 1
  SampleSize = 1
  Web = {w1}
  Main = w1
  Scheduler = scheduler
  NoOne = NoOne
  Modes = {"automatic"}
  Pausing = FALSE
  EditedSkus = {}
  DeletedSkus = {}
  FeedsThreshold = 1
  UndoCount = 2
SPECIFICATION Spec
INVARIANT SentIsUndoable NoSendOverWreckage SentIsOnRecord
CHECK_DEADLOCK FALSE
