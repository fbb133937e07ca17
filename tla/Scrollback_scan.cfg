\* More commands than twice the marks, less one.
SPECIFICATION Spec
CONSTANTS
  H = 8
  Height = 1
  Marks = 2
  Bookmarks = {}
  MaxLines = 4
  MaxReverse = 0
PROPERTY UpScanEnds
