\* Two controllers: a second step command issued while the first
\* controller is still initializing; two stop notifications let the
\* thread run, stop and be resumed again.
CONSTANTS
  Ctrls = {c1, c2}
  None = None
  MaxStops = 2
SPECIFICATION Spec
INVARIANT NoRunBeforeInit
\* The thread may stay stopped, or exit, for good: the debugger waits on
\* its user.
CHECK_DEADLOCK FALSE
