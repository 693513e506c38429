\* Three classes admit every acyclic hierarchy of that size: a class with
\* two bases, a base of a base, a diamond, and shadowed members;
\* two names, and two base offsets so that the bases' paths give different
\* results.  One call, whose read may complete before or after teardown,
\* through a null or a valid pointer.
CONSTANTS
  NClasses = 3
  Names = {1, 2}
  BaseOffsets = {0, 4}
  Calls = {k1}
  Ptrs = {0, 16}
SPECIFICATION Spec
INVARIANT TypeOK
INVARIANT LookupMatchesReference
INVARIANT CallbackMatchesReference
\* Once every call is made and every read has completed, nothing is left
\* to happen: the evaluator is idle.
CHECK_DEADLOCK FALSE
