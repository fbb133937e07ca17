\* Every key, the bookmark that Shift+Return uses, a line that comes back to the
\* screen, and a ring that wraps once.
SPECIFICATION Spec
CONSTANTS
  H = 4
  Height = 2
  Marks = 4
  Bookmarks = {0}
  MaxLines = 4
  MaxReverse = 1
CONSTRAINT MCBound
INVARIANTS TypeOK ScrInHistory MarksOrdered
PROPERTIES TabNearest BackspaceNearest RetmarkShows EnterAtCommand DownScanEnds
