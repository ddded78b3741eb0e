\* Copy with the destination directory typed as the source's own directory
\* (both panels showing the same directory): one call per behaviour.
CONSTANTS
  Names <- MCNames
  MaxDepth = 3
  InitDepth = 2
  NONE = NONE
  DIR = DIR
  EMPTY = EMPTY
  PARTIAL = PARTIAL
  NOPATH = NOPATH
  LINK = LINK
  LinkTargets = {}
  MaxLinks = 0
  Faults = {}
  MaxOps = 1
SPECIFICATION Spec
\* A behaviour ends after MaxOps calls.
CHECK_DEADLOCK FALSE
PROPERTY CopyKeepsSourceData
