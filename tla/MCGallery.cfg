\* Two sessions, two contents of one item: uploads, deletions, reorders, backfill.
CONSTANTS
  Item = {drill}
  Content = {front, back}
  PhotoId = {p1, p2}
  Session = {s1, s2}
  None = None
  MaxFaults = 1
SPECIFICATION Spec
SYMMETRY Symmetry
INVARIANTS
  TypeOK
  AttachedIsReal
  BytesOutliveTheirRow
PROPERTY CalmReorderSucceeds
CHECK_DEADLOCK FALSE
