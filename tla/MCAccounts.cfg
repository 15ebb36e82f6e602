\* Two members, one browser, one device, two requests at once; one password
\* change or deactivation each.
SPECIFICATION LaneSpec
CONSTANTS
  User = {ann, ben}
  Sid = {s1}
  Tid = {t1}
  Request = {r1, r2}
  None = None
  MaxEpoch = 1
  Key = {k1, k2, k3}
  Overlap = {0, 2}
  MaxDays = 3
  Email = {e1, e2}
  Threshold = 1
  Window = 3
  Lag = 1
  Client = {c1, c2}
  Rate = 1
  Burst = 4
  StaleAfter = 2
  MaxTracked = 1
  MaxClock = 7
SYMMETRY Symmetry
INVARIANTS
  TypeOK AdminRemains OneFirstAdmin RevocationReachesAll
  SweepIsBounded
PROPERTIES KeysChangeHandsWhole LockHolds
CHECK_DEADLOCK FALSE
