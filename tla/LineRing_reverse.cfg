\* A program that sends reverse indexes.
SPECIFICATION Spec
CONSTANTS
  H = 4
  RowSizes = {2, 3}
  ColSizes = {1}
  Buf = {b1, b2, b3, b4, b5, b6, b7, b8}
  NULL = NULL
  Chars = {}
  Blank = Blank
  Uninit = Uninit
  Sent = {"LF", "RI"}
  SentScrolled = {"LF", "RI"}
INVARIANT WrittenLines
VIEW Canonical
