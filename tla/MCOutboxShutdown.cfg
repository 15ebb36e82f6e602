\* The shutdown of a process with a batch in flight, against the comment of main.go.
CONSTANTS
  Notice = {asked, fulfilled}
  Dispatcher = {d1, d2}
  None = None
  BatchSize = 2
  MaxAttempts = 2
  SdkAttempts = 1
  MaxFaults = 1
SPECIFICATION FairSpec
INVARIANT InFlightBatchIsSettled
CHECK_DEADLOCK FALSE
