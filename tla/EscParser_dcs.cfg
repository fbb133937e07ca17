\* A string after a DCS.
SPECIFICATION Spec
CONSTANTS
  CsiSiz = 3
  StrSiz = 2
  StrLimit = 2
PROPERTY ControlsPerformed
