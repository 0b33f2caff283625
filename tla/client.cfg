CONSTANTS
  Threads = {job, web}
  job = job
  web = web
  KindsOf <- MCKindsOf
  Metered = {"reports.get", "feeds.create"}
  Cost <- MCCost
  Burst <- MCBurst
  Patience = 1
  AmazonEarns <- MCEarns
  AmazonBurst <- MCAmazonBurst
  MaxAttempts = 2
  Pauses = {1}
  Timeout = 1
  Life = 3
  Margin = 2
  PollLimit = 0
SPECIFICATION FairSpec
PROPERTY ConversationEnds
INVARIANT TypeOK
INVARIANT RoomAtAmazon
INVARIANT TokenIsFresh
INVARIANT RefusedTokenIsDropped
INVARIANT PracticeIsSilent
PROPERTY NotRefusedAlone
CHECK_DEADLOCK FALSE
