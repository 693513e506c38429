\* The hierarchy bounds of MC_ResolveCollection.cfg: three classes (two
\* bases, a base of a base, a diamond, shadowed members), two names, two
\* base offsets and one call through a null or a valid pointer, whose read
\* may complete before or after teardown.
CONSTANTS
  NClasses = 3
  Names = {1, 2}
  BaseOffsets = {0, 4}
  Calls = {k1}
  Ptrs = {0, 16}
SPECIFICATION Spec
PROPERTY ImplementsContract
\* Once every call is made and every read has completed, nothing is left
\* to happen: the evaluator is idle.
CHECK_DEADLOCK FALSE
