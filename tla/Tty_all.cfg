\* Keys of one and three bytes, answers of two, a program that blocks in a
\* write, queues of three bytes.
SPECIFICATION FairSpec
CONSTANTS
  InCap = 3
  OutCap = 3
  Room = 3
  BufSize = 3
  Lim = 2
  AnswerLen = 2
  KeyLens = {1, 3}
  MaxKeys = 4
  MaxOut = 4
INVARIANTS TypeOK ParsedInOrder WrittenInOrder
PROPERTIES WriteEnds OutputParsed
CHECK_DEADLOCK FALSE
