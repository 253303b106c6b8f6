\* Launch: two threads share three groups of two sub-groups; all programs of up to
\* two operations, so every pair of consecutive operations occurs.
\* Events: two clients, the SDL queue and the handlers make one event each; two
\* handlers, so a handler can be removed while the other one is called.
\* Logger: two threads log and flush while the logger thread runs and is destroyed.
SPECIFICATION Spec
CONSTANTS
  Parts <- AllParts
  Cpus = {cpu1, cpu2}
  GroupCount = 3
  LocalSize = 4
  SimdWidth = 2
  MaxOps = 2
  Main = main
  DeviceExecution = TRUE
  Clients = {client1, client2}
  Handlers = {h1, h2}
  MaxEvents = 1
  NoHandler = NoHandler
  Workers = {logger}
  Delayed = {}
  LogThread = logger
  Dtor = dtor
  Callers = {c1, c2}
  MaxMsgs = 1
INVARIANTS
  BarrierHolds
  IdsMatchItem
  SimdResultsCorrect
  EveryItemOnce
  EventsInOrder
  RemovedIsNotCalled
  NothingLost
PROPERTIES
  LaunchReturns
  OnlyLockCycleBlocks
  FlushWritesTaken
  LoggedIsWritten
\* A launch ends, the lock cycle stops both threads (see AddedIsHandled), and after
\* destroy() no more messages are logged beyond the bound.
CHECK_DEADLOCK FALSE
