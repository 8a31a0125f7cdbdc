\* Four merged children, three items, three clients, lists of two results and
\* ports of two digits to the base three, and two threads with up to three
\* files.  Deadlock is not checked: all but the server end.
SPECIFICATION MCSpec
CONSTANTS
  N = 4
  Items = {i1, i2, i3}
  MaxItems = 2
  Clients = {c1, c2, c3}
  Radix = 3
  MaxResults = 2
  block_size = 2
  Options <- OptionsValue
CHECK_DEADLOCK FALSE
INVARIANTS
  CompletesAfterAllChildren
  ErrorIsReported
  OneErrorWriter
  ResultIsConstructed
  ReduceAddsUp
  FinalRunsWhenItShould
  ServerOutlivesClients
  EndsOnlyWithFailure
  ListIsFreedOnce
  LastLineIsComplete
PROPERTY
  EveryOperationCompletes
