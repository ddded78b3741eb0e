\* Two panels over every tree of two names up to depth 1 (paths up to depth
\* 2), both starting in "/", five input events per behaviour.
CONSTANTS
  Names <- MCNames
  NameOrder <- MCNameOrder
  MaxDepth = 2
  InitDepth = 1
  NONE = NONE
  DIR = DIR
  EMPTY = EMPTY
  PARTIAL = PARTIAL
  NOPATH = NOPATH
  LINK = LINK
  LinkTargets = {}
  MaxLinks = 0
  Faults = {}
  MaxSteps = 5
SPECIFICATION Spec
\* A behaviour ends after MaxSteps events or when the user quits.
CHECK_DEADLOCK FALSE
INVARIANT TypeOK SelectionInRange
PROPERTY ActingPanelCurrent
