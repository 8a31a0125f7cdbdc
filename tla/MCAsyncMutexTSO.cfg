\* The store of false may be delayed in a store buffer: the mutex still excludes.
SPECIFICATION SafeSpec
CONSTANTS
  Ops = {o1, o2, o3, o4}
  NoOp = NoOp
  StoreBuffering = TRUE
SYMMETRY OpsSymmetry
INVARIANTS
  MutualExclusion
  LinkedNodesAreAlive
