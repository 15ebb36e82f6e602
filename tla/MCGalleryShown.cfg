\* One client at a time and no fault, against the doc of PhotoService.Upload.
CONSTANTS
  Item = {drill}
  Content = {front, back, label}
  PhotoId = {p1, p2, p3}
  Session = {s1}
  None = None
  MaxFaults = 0
SPECIFICATION Spec
SYMMETRY Symmetry
PROPERTY UploadIsShown
CHECK_DEADLOCK FALSE
