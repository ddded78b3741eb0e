\* The two panels over trees of depth 1, four events: is a loaded listing always the listing of the panel's cwd?
CONSTANTS
  Names <- MCNames
  NameOrder <- MCNameOrder
  MaxDepth = 2
  InitDepth = 1
  NONE = NONE
  DIR = DIR
  EMPTY = EMPTY
  PARTIAL = PARTIAL
  NOPATH = NOPATH
  LINK = LINK
  LinkTargets = {}
  MaxLinks = 0
  Faults = {}
  MaxSteps = 4
SPECIFICATION Spec
CHECK_DEADLOCK FALSE
INVARIANT CwdIsShown
