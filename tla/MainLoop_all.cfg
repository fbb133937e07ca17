\* Two rows, scrolled back and forth; the whole screen is the scroll region.
SPECIFICATION Spec
CONSTANTS
  Rows = 2
  Lines = 2
  QueueMax = 1
  XevFrames = 1
  Regions = FALSE
INVARIANT CleanRowsRight
INVARIANT SleepsUpToDate
PROPERTY EventsHandled
