\* One confirm session; a release anywhere on the buttons' screen row.
CONSTANTS
  MaxPending = 2
  NONE = NONE
SPECIFICATION Spec
\* The session ends when run_confirm_dialog returns.
CHECK_DEADLOCK FALSE
PROPERTY ConfirmOnlyOnOk
