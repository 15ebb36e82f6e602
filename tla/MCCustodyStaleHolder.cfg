\* The holder snapshot of an open request, against the comment of 00013_return_request.sql.
CONSTANTS
  ann = ann
  nook = nook
  Lane = {"requests"}
  User = {ann, bob}
  Admin = {ann}
  Integration = nestova
  Item = {drill}
  Bin = {box, nook}
  RequestId = {r1}
  Session = {s1, s2}
  Creator <- AnnCreates
  None = None
  Offered = {"create", "remove", "return", "request"}
  MaxEvents = 6
  MaxClock = 0
SPECIFICATION LaneSpec
SYMMETRY Symmetry
INVARIANT HolderSnapshotFresh
CHECK_DEADLOCK FALSE
