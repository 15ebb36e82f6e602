\* An item's page: two clicks that cross; one click with two photos and failing calls;
\* the same with gaps between the photos.  The pages of two bins in two locations, one
\* code for both; and an inbox of two rows for up to three, with one kind of event.
SPECIFICATION LaneSpec
CONSTANTS
  Bin = {box, vault}
  Hidden = {vault}
  Me = me
  Other = other
  LinkId = {l1}
  PhotoId = {p1, p2}
  FirstPositions = {{0}, {0, 1}, {2, 3}}
  Click = {x1, x2}
  None = None
  Gone = Gone
  MaxChanges = 2
  BinId = {b1, b2}
  Room = {r1, r2}
  Code = {A}
  MaxDeeds = 3
  Kind = {k1}
  InboxLimit = 2
  MaxRows = 3
SYMMETRY Symmetry
INVARIANTS
  HistoryNotBehind OwnPageIsCurrent
  PrivateStaysUnseen NoNameMeansMoved OwnScreenIsCurrent InboxIsTrue
PROPERTIES MovesWhatItShows CalmClickIsTaken
CHECK_DEADLOCK FALSE
