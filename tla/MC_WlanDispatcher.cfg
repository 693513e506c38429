CONSTANTS
  Txids = {1, 2}
  MaxEvents = 3

SPECIFICATION Spec
INVARIANT TypeOK
INVARIANT StatsBalanced
PROPERTY RepliesMatchRequests
\* The dispatcher is a passive callee: it stops whenever no call arrives,
\* which in the model is when the call bound is spent.
CHECK_DEADLOCK FALSE
