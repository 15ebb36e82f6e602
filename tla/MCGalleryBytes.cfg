\* A deletion beside an upload of the same content, against the doc of PhotoRepository.
CONSTANTS
  Item = {drill}
  Content = {front}
  PhotoId = {p1, p2}
  Session = {s1, s2}
  None = None
  MaxFaults = 0
SPECIFICATION Spec
SYMMETRY Symmetry
INVARIANT AttachedHasBytes
CHECK_DEADLOCK FALSE
