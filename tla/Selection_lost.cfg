\* The five ways in which the code loses the place of a selection: run with
\* -continue, the first violation is not the only one.
SPECIFICATION Spec
CONSTANTS
  Rows = 3
  HistSize = 3
  Lines <- MCLines
  Regions <- MCRegions
INVARIANTS KeptByScrolls KeptByRegions KeptByScreens KeptByText KeptByHelp
