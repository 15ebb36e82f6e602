\* A size is chosen, its preview is refused, and the batch is printed.
SPECIFICATION Spec
CONSTANTS
  Bin = {1}
  MaxLabels = 2
  None = None
INVARIANT PreviewMatchesPdf
CHECK_DEADLOCK FALSE
