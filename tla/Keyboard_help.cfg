\* The catch-all binding of the help against its comment in config.h.
SPECIFICATION KeySpec
CONSTANTS
  Tables <- MCShortcuts
  States <- MCStates
INVARIANT HelpAborts
