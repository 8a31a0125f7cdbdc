\* Four lock operations, started by threads or from continuations.
SPECIFICATION Spec
CONSTANTS
  Ops = {o1, o2, o3, o4}
  NoOp = NoOp
  StoreBuffering = FALSE
INVARIANTS
  TypeOK
  NoLockLost
PROPERTY
  ImplementsAsyncLock
