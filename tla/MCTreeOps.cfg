\* process_tree on every tree up to depth 2 (paths up to depth 3), two calls
\* per behaviour, renames failing with EXDEV or not, no write failures.
CONSTANTS
  Names = {n1, n2}
  MaxDepth = 3
  InitDepth = 2
  NONE = NONE
  DIR = DIR
  EMPTY = EMPTY
  PARTIAL = PARTIAL
  NOPATH = NOPATH
  LINK = LINK
  LinkTargets = {}
  MaxLinks = 0
  Faults = {}
  MaxOps = 2
SPECIFICATION Spec
SYMMETRY NameSymmetry
\* A behaviour ends after MaxOps calls.
CHECK_DEADLOCK FALSE
PROPERTY MoveKeepsData MoveRelocatesTree CopyMirrorsTree DeleteRemovesTree
 
