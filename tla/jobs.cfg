CONSTANTS
  Procs = {main, other}
  Main = main
  MaxRuns = 3
  Limit = 2
  Undeliverable = {1}
  Unaddressed = {2}
  MaxCrashes = 2
SPECIFICATION FairSpec
INVARIANT FailureIsAlerted
INVARIANT CorpseHasCause
INVARIANT SentWasMailed
PROPERTY AlertIsMailed
CHECK_DEADLOCK FALSE
