\* One link handle and two PSMs, as in MC_BtDomain.cfg; five caller
\* operations or remote events let the caller queue several tasks
\* (initialize, add a link, shut down) and drop its reference while they
\* are still queued.
CONSTANTS
  Handles = {h1}
  PSMs = {p1, p2}
  MaxEvents = 5
SPECIFICATION FairSpec
PROPERTY FreedAfterRelease
\* The data thread and the caller stop once the operations are spent and
\* both queues are empty: the Domain then waits for a caller.
CHECK_DEADLOCK FALSE
