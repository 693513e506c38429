CONSTANTS
  k1 = k1
  k2 = k2
  Koids <- MCKoids
  NoProcess = NoProcess
  MaxTargets = 2
  MaxJobs = 2
  MaxBreakpoints = 3
  MaxAttaches = 3
  MaxConnects = 2

SPECIFICATION Spec
SYMMETRY MCSymmetry

INVARIANT ObserversSeeUserBreakpoints
INVARIANT NotificationsWellOrdered
INVARIANT NoStaleProcess
INVARIANT IInv
INVARIANT ViewInv
