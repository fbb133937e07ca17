\* Every sequence of bytes, buffers of a few bytes.
SPECIFICATION Spec
CONSTANTS
  CsiSiz = 3
  StrSiz = 2
  StrLimit = 2
INVARIANTS TypeOK OneSequence
PROPERTIES HandledOnce WholeSequence EscapeStarts
