\* Items in two bins under a moving clock; and lending and return requests, two
\* at a time, as an implementation of the desk.
CONSTANTS
  ann = ann
  nook = nook
  Lane = {"items", "requests"}
  User = {ann, bob}
  Admin = {ann}
  Integration = nestova
  Item = {drill}
  Bin = {box, nook}
  RequestId = {r1, r2}
  Session = {s1, s2}
  Creator <- AnnCreates
  None = None
  Offered = {"create", "add", "remove", "return", "request", "cancel", "edit", "delete"}
  MaxEvents = 5
  MaxClock = 1
SPECIFICATION LaneSpec
SYMMETRY Symmetry
INVARIANTS
  TypeOK
  LockedRowIsStable
  PlacedBinExists
  LedgerMatchesPlacement
  RequestFateInLedger
  HolderTookTheItem
  ChainOfCustody
PROPERTY ImplementsDesk
CHECK_DEADLOCK FALSE
