\* Scroll regions of a part of the screen.
SPECIFICATION Spec
CONSTANTS
  Rows = 2
  Lines = 2
  QueueMax = 1
  XevFrames = 1
  Regions = TRUE
INVARIANT CleanRowsRight
