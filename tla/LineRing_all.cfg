\* Every escape sequence, at any time, and every window size.
SPECIFICATION Spec
CONSTANTS
  H = 4
  RowSizes = {2, 3}
  ColSizes = {1, 2}
  Buf = {b1, b2, b3, b4, b5, b6, b7, b8}
  NULL = NULL
  Chars = {}
  Blank = Blank
  Uninit = Uninit
  Sent = {"text", "CUP", "LF", "RI", "SU", "SD", "IL", "DL", "STBM", "RIS"}
  SentScrolled = {"text", "CUP", "LF", "RI", "SU", "SD", "IL", "DL", "STBM", "RIS"}
INVARIANTS TypeOK NoSharing LeakBounded
VIEW Canonical
