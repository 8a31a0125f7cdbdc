\* Two children in lock step, handlers on any number of threads.
SPECIFICATION Spec
CONSTANTS
  N = 2
  K = 2
  Overlapping = FALSE
\* An item may be stranded (MCZipStranded.cfg), and a null front() ends the
\* behaviour.
CHECK_DEADLOCK FALSE
INVARIANTS
  FrontsPresent
  TuplesAligned
  ReadyIsCounted
  CompletedByLastChild
PROPERTY
  CompletesOrStrands
