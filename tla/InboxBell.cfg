\* The bell after a click on "mark read", against the comments of MarkRead.
SPECIFICATION Spec
CONSTANTS
  Kind = {k1}
  Request = {x1}
  InboxLimit = 2
  MaxRows = 2
  None = None
INVARIANT BellShrinks
CHECK_DEADLOCK FALSE
