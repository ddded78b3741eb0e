\* One input session on a terminal the user may shrink too small for the window's origin.
CONSTANTS
  BufLen = 3
  MaxPending = 2
  AllowSmall = TRUE
  NONE = NONE
SPECIFICATION Spec
\* The session ends when run_input_dialog returns.
CHECK_DEADLOCK FALSE
PROPERTY EscapeCloses
