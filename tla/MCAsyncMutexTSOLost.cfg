\* Two threads and a store buffer: a lock operation can be left behind.
SPECIFICATION SafeSpec
CONSTANTS
  Ops = {o1, o2}
  NoOp = NoOp
  StoreBuffering = TRUE
INVARIANT
  NoLockLost
