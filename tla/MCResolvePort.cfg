\* The ports of resolved endpoints.
SPECIFICATION MCSpec
CONSTANTS
  N = 1
  Items = {i1}
  MaxItems = 1
  Clients = {c1}
  Radix = 3
  MaxResults = 1
  block_size = 2
  Options <- OptionsValue
\* A lookup ends.
CHECK_DEADLOCK FALSE
INVARIANT
  ResolvedPortIsAsked
