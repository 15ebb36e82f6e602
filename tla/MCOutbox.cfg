\* Two notices, two server processes, retries, crashes and shutdowns, with two
\* tries of the SDK within one Send; and, under fairness, the end of every pending row.
CONSTANTS
  Notice = {asked, fulfilled}
  Dispatcher = {d1, d2}
  None = None
  BatchSize = 2
  MaxAttempts = 2
  SdkAttempts = 2
  MaxFaults = 1
SPECIFICATION FairSpec
INVARIANTS
  TypeOK
  OneCarrier
  SendsAreCounted
  InAppStaysDelivered
PROPERTIES
  NoSendAfterAcceptance
  PendingIsSettled
CHECK_DEADLOCK FALSE
