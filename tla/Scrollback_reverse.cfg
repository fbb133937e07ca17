\* The program scrolls a line back to the screen.
SPECIFICATION Spec
CONSTANTS
  H = 8
  Height = 3
  Marks = 2
  Bookmarks = {1}
  MaxLines = 4
  MaxReverse = 1
INVARIANT ScrWritten
