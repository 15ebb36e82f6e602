\* Bin moves beside placements and deletions; and the readers: one page after
\* the other while rows and events come and go, and labels on three sizes.
SPECIFICATION LaneSpec
CONSTANTS
  Bin = {box, nook}
  Location = {attic, cellar, shed}
  Item = {drill}
  Session = {s1, s2}
  None = None
  MaxEvents = 4
  EventId = {1, 2, 3, 4}
  Clock = 2
  Limit = 1
  Row = {1, 2, 3}
  Name = {1, 2}
  Gone = Gone
  Labelled = {1, 2, 3}
  MaxLabels = 2
SYMMETRY Symmetry
INVARIANTS
  TypeOK BinStandsSomewhere TrailFollowsItem
  HistoryIsWhole ListIsWhole LabelsAreRight
PROPERTY MovedMeansMoved
CHECK_DEADLOCK FALSE
