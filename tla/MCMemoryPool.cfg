\* Threads that allocate, free and stop concurrently, with an upstream that
\* can serve two requests.  Deadlock is not checked: a request of a class that
\* never got a block waits forever, start() may wait for the mutex it holds,
\* and nothing is said where a thread is dangling.
SPECIFICATION MCSpec
CONSTANTS
  o1 = o1
  o2 = o2
  o3 = o3
  o4 = o4
  o5 = o5
  Ops = {o1, o2, o3, o4, o5}
  Null = Null
  Blocks = {b1, b2, b3, b4}
  NoBlock = NoBlock
  Size <- MCSize
  Stoppable = {o3, o4}
CHECK_DEADLOCK FALSE
INVARIANTS
  BlockInOnePlace
  WaitersLeaveNothingFree
  BlockFits
  CompletedOnce
PROPERTY
  WaiterIsServed
