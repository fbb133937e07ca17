\* A window that gets wider than it ever was.
SPECIFICATION Spec
CONSTANTS
  H = 4
  RowSizes = {2, 3}
  ColSizes = {1, 2}
  Buf = {b1, b2, b3, b4, b5, b6, b7, b8}
  NULL = NULL
  Chars = {}
  Blank = Blank
  Uninit = Uninit
  Sent = {"LF"}
  SentScrolled = {"LF"}
INVARIANT ViewColumns
VIEW Canonical
