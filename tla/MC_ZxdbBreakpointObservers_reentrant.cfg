CONSTANTS
  NObs = 2
  MaxBreakpoints = 3
  DeleteAny = TRUE
SPECIFICATION Spec
INVARIANT NotifyingLiveBreakpoint
CHECK_DEADLOCK FALSE
