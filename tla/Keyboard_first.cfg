\* The table of config.h against its comment on the order.
SPECIFICATION KeySpec
CONSTANTS
  Tables <- MCShortcuts
  States <- MCStates
INVARIANT FirstMatches
