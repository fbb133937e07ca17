\* The first time a program uses the alternate screen.
SPECIFICATION Spec
CONSTANTS
  Heights = {2}
  Modes = {1049}
  Sent <- MCAnyTime
  Users <- MCAnyUser
PROPERTY CursorRestored
