\* Three rows, and every way to select, scroll, write and switch.
SPECIFICATION Spec
CONSTANTS
  Rows = 3
  HistSize = 3
  Lines <- MCLines
  Regions <- MCRegions
VIEW MCView
INVARIANTS HighlightCopied
