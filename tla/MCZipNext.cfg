\* Children with several items under way: the zipped operation may empty the
\* queues before its starter looks at them again.
SPECIFICATION SafeSpec
CONSTANTS
  N = 2
  K = 2
  Overlapping = TRUE
CHECK_DEADLOCK FALSE
INVARIANT
  NextFrontPresent
