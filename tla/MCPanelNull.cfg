\* One panel whose directory may be unreadable.
CONSTANTS
  MaxBefore = 0
  MaxAfter = 1
  Heights = {4}
SPECIFICATION Spec
\* A NULL dereference in enter_directory ends the program.
CHECK_DEADLOCK FALSE
INVARIANT NoNullEntries
