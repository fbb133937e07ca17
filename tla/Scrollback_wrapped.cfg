\* The user goes to a bookmark that was set before the ring wrapped.
SPECIFICATION Spec
CONSTANTS
  H = 4
  Height = 2
  Marks = 2
  Bookmarks = {1}
  MaxLines = 5
  MaxReverse = 0
INVARIANT ScrInRing
