\* The two panels over trees of depth 1, four events: is a double click always two clicks in one panel and listing?
CONSTANTS
  Names <- MCNames
  NameOrder <- MCNameOrder
  MaxDepth = 2
  InitDepth = 1
  NONE = NONE
  DIR = DIR
  EMPTY = EMPTY
  PARTIAL = PARTIAL
  NOPATH = NOPATH
  LINK = LINK
  LinkTargets = {}
  MaxLinks = 0
  Faults = {}
  MaxSteps = 4
SPECIFICATION Spec
CHECK_DEADLOCK FALSE
PROPERTY DoubleClickSameListing
