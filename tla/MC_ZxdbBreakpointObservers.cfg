CONSTANTS
  NObs = 2
  MaxBreakpoints = 3
  DeleteAny = FALSE
SPECIFICATION Spec
INVARIANTS
  NotifyingLiveBreakpoint
  QuiescentViewsAgree
  ObsInv
CHECK_DEADLOCK FALSE
