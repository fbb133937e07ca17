\* Every Term, every switch between them and a window of three heights.
SPECIFICATION Spec
CONSTANTS
  Heights = {1, 2, 3}
  Modes = {1049}
  Sent <- MCSent
  Users <- MCUsers
INVARIANTS TypeOK ViewSized HelpKeys LessOnMain AltFlag
PROPERTY CursorKept
