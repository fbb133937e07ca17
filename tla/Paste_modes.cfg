\* Bracketed paste, newline mode and mouse reports against what is sent.
SPECIFICATION Spec
CONSTANTS
  Texts <- MCTexts
  Owned <- MCOwned
  Chunk = 2
  MaxActs = 3
PROPERTIES ModesObeyed
CHECK_DEADLOCK FALSE
