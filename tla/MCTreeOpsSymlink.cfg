\* Delete on trees holding symbolic links to top-level entries, as
\* delete_directory_dialog offers it for a link to a directory: one call
\* per behaviour.
CONSTANTS
  Names = {n1, n2}
  MaxDepth = 3
  InitDepth = 2
  NONE = NONE
  DIR = DIR
  EMPTY = EMPTY
  PARTIAL = PARTIAL
  NOPATH = NOPATH
  LINK = LINK
  LinkTargets <- MCLinkTargets
  MaxLinks = 2
  Faults = {}
  MaxOps = 1
SPECIFICATION Spec
\* A behaviour ends after MaxOps calls.
CHECK_DEADLOCK FALSE
PROPERTY DeleteStaysInTree
