\* One input session with a 3-character buffer (two characters and the
\* terminator), up to three events typed ahead; the terminal may be or
\* become too small for the window's origin (68 columns or 10 rows or fewer).
CONSTANTS
  BufLen = 3
  MaxPending = 3
  AllowSmall = TRUE
  NONE = NONE
SPECIFICATION Spec
\* The session ends when run_input_dialog returns.
CHECK_DEADLOCK FALSE
INVARIANT TypeOK
PROPERTY ImplementsPrompt
PROPERTY EscapeClosesOnWindow
