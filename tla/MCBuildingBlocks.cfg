\* Fork with three items, two subscribers and two items, every sequence of calls
\* on a list and two queues of three nodes, spans of up to three buffers,
\* transfers of up to four bytes with every pattern of short results, three
\* resources, and deferred objects in three places.  Deadlock is not checked: transfers and resources end, and a
\* subscriber that is neither stopped nor closed waits.
SPECIFICATION MCSpec
CONSTANTS
  Items = {i1, i2, i3}
  Nodes = {n1, n2, n3}
  Observers = {n1, n2}
  Null = Null
  Rounds = 2
  Shapes <- ShapesValue
  BufferShapes <- BufferShapesValue
  Offsets = {0, 1}
  FileSize = 5
  Resources = {r1, r2, r3}
  Places = {p1, p2, p3}
CHECK_DEADLOCK FALSE
INVARIANTS
  CompletesAfterAllItems
  FailureShows
  CompletedOnce
  ContainersHoldTheirItems
  SubscriberCompletedOnce
  NobodyForgotten
  SubspanHasItsBytes
  BytesInPlace
  ValueMeansFilled
  OpenedIsClosedOnce
  ResultSurvives
  DestroysWhatIsAlive
PROPERTY
  EveryOperationCompletes
