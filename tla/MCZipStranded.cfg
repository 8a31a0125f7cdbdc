\* A child that ends while the other pushes an item.
SPECIFICATION Spec
CONSTANTS
  N = 2
  K = 1
  Overlapping = FALSE
\* The stranded item is a deadlock too; the question here is the completion.
CHECK_DEADLOCK FALSE
PROPERTY
  EventuallyCompletes
