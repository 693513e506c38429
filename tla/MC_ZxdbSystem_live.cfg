CONSTANTS
  k1 = k1
  k2 = k2
  Koids <- MCKoids
  NoProcess = NoProcess
  MaxTargets = 2
  MaxJobs = 1
  MaxBreakpoints = 1
  MaxAttaches = 3
  MaxConnects = 2

SPECIFICATION FairSpec

PROPERTY ExitedProcessesDropped
