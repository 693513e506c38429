CONSTANTS
  BufLen = 4
  MaxLen = 2
  Budgets = {0, 2}

SPECIFICATION Spec
PROPERTY Termination
\* A call returns: once pc = "done" nothing is left to do.
CHECK_DEADLOCK FALSE
