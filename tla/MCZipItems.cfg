\* Items of one child that complete on several threads.
SPECIFICATION SafeSpec
CONSTANTS
  N = 2
  K = 2
  Overlapping = TRUE
\* An item may be stranded (MCZipStranded.cfg), and a null front() ends the
\* behaviour.
CHECK_DEADLOCK FALSE
INVARIANT
  ItemInOnePlace
