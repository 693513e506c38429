CONSTANTS
  BufLen = 4
  MaxLen = 2
  Budgets = {0, 1, 3}

SPECIFICATION Spec
INVARIANT TypeOK
INVARIANT OutputMatchesReference
\* A call returns: once pc = "done" nothing is left to do.
CHECK_DEADLOCK FALSE
