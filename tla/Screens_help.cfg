\* A program that switches screens while the help is shown.
SPECIFICATION Spec
CONSTANTS
  Heights = {2}
  Modes = {1049}
  Sent <- MCAnyTime
  Users <- MCAnyUser
PROPERTY QExits
