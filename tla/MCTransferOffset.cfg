\* Transfers of two buffers, from the beginning of a file.
SPECIFICATION MCSpec
CONSTANTS
  Items = {i1}
  Nodes = {n1}
  Observers = {n1}
  Null = Null
  Rounds = 1
  Shapes <- ShapesValue
  BufferShapes <- TwoBuffers
  Offsets = {0}
  FileSize = 5
  Resources = {r1}
  Places = {p1}
\* A transfer ends.
CHECK_DEADLOCK FALSE
INVARIANT
  EveryByteInPlace
