\* One confirm session with up to three events typed ahead (keys, clicks
\* and resizes).
CONSTANTS
  MaxPending = 3
  NONE = NONE
SPECIFICATION Spec
\* The session ends when run_confirm_dialog returns.
CHECK_DEADLOCK FALSE
INVARIANT TypeOK
PROPERTY ImplementsPrompt
PROPERTY EscapeCloses
