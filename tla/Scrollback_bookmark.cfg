\* The user goes to bookmark 0.
SPECIFICATION Spec
CONSTANTS
  H = 8
  Height = 3
  Marks = 2
  Bookmarks = {0}
  MaxLines = 4
  MaxReverse = 0
INVARIANT ScrWritten
