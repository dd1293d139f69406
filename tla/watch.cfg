SPECIFICATION FairSpec
CONSTANTS
  w1 = w1
  Wait = {w1}
  NoWait = NoWait
  ReportWindow = 1
  Window = 2
  WatchdogAge = 2
  LeaseTime = 1
  Timeout = 2
  Starts <- QuickReview
  Retries <- StrictRetry
  MaxAttempts = 2
INVARIANTS TypeOK
PROPERTIES RetrySparesWaits GiveUpIsSound WaitSleeps WaitEnds
