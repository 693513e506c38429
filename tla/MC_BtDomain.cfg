\* One link handle (added as ACL or LE, removed, re-added) and two PSMs;
\* five caller operations or remote events are enough to initialize, add a
\* link, open or accept a channel, remove the link and shut down.
CONSTANTS
  Handles = {h1}
  PSMs = {p1, p2}
  MaxEvents = 5
SPECIFICATION Spec
INVARIANT NoUseAfterFree
INVARIANT ChannelsOnRegisteredLinks
\* The data thread and the caller stop once the operations are spent and
\* both queues are empty: the Domain then waits for a caller.
CHECK_DEADLOCK FALSE
