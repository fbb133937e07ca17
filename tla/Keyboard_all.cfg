\* The table of config.h, and every small one.
SPECIFICATION KeySpec
CONSTANTS
  Tables <- MCTables
  States <- MCStates
INVARIANT TableOK
INVARIANT PressFinds
