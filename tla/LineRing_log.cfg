\* A program that never sends a reverse index, and no SU or DL while the
\* user has scrolled back.
SPECIFICATION Spec
CONSTANTS
  H = 4
  RowSizes = {2, 3}
  ColSizes = {1}
  Buf = {b1, b2, b3, b4, b5, b6, b7, b8}
  NULL = NULL
  Chars = {x}
  Blank = Blank
  Uninit = Uninit
  Sent = {"text", "CUP", "LF", "SU", "SD", "IL", "DL", "STBM", "RIS"}
  SentScrolled = {"text", "CUP", "LF", "SD", "IL", "STBM", "RIS"}
INVARIANT ViewAllocated
PROPERTIES ViewSteady ImplementsLog
VIEW Canonical
