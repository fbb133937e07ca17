\* Three acts in any order: pastes, keys, selections, modes.
SPECIFICATION FairSpec
CONSTANTS
  Texts <- MCTexts
  Owned <- MCOwned
  Chunk = 2
  MaxActs = 3
INVARIANTS TypeOK NothingLost MaskOff
PROPERTIES PasteEnds
CHECK_DEADLOCK FALSE
