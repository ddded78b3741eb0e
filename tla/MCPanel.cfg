\* One panel; listings of two to five entries (up to one name sorting before
\* "." and two after ".."); panel heights 2 (the degenerate viewport), 3, 4
\* and 6 (one, two and four visible rows), so listings are longer and
\* shorter than the window.
CONSTANTS
  MaxBefore = 1
  MaxAfter = 2
  Heights = {2, 3, 4, 6}
SPECIFICATION Spec
\* A NULL dereference in enter_directory ends the program.
CHECK_DEADLOCK FALSE
INVARIANT TypeOK MoveRestoresWindow SelectionInRange
